---- MODULE Spec2Model ----
(***************************************************************************)
(* Model of the data-ingestion scripts (scripts/data_ingestion): the two   *)
(* record transformers, the shared helpers of utils.py and the two ingest  *)
(* drivers with the datastore they write to.                               *)
(*                                                                         *)
(* Python values are modelled by one uniform record shape (PyVal) so that  *)
(* a raw feature may hold anything JSON can hold.  Text is a sequence of   *)
(* symbols: single characters, plus atomic numerals (the printed form of a *)
(* number) and the atomic prefix "POINT(".  A number n stands for the      *)
(* decimal n/100, so -10 is longitude -0.10 and 5155 is latitude 51.55.    *)
(***************************************************************************)
EXTENDS Integers, Sequences, FiniteSets, TLC

VARIABLES
    pc,                 \* position of the running ingest function
    pipeline,           \* "lb" (listed buildings) or "ca" (conservation areas)
    args,               \* arguments of the call: source, filepath, borough, dry_run
    records,            \* raw features obtained by the source reader (a Python list)
    url_i,              \* conservation areas: next entry of BOROUGH_DATA_URLS
    fetched,            \* conservation areas: outcome of each remote fetch so far
    i,                  \* transform loop: number of records already visited
    transformed,        \* canonical records accumulated by the transform loop
    tracker,            \* ProgressTracker counters
    client,             \* TRUE once get_supabase_client() has returned
    j,                  \* insert loop: number of canonical records already visited
    inserted,           \* insert loop counter
    failed,             \* insert loop counter
    calls,              \* persistence calls made by this run, in order
    result,             \* what the call returned or raised
    listed_buildings,   \* datastore table listed_buildings
    conservation_areas, \* datastore table conservation_areas
    now,                \* datastore clock: the time NOW() gave to the last write
    opened,             \* the paths this run has validated, each with what the
                        \* validation saw and whether the file was then opened
    frame,              \* batch_insert: its arguments, locals and upsert calls
    target_table        \* batch_insert: the rows of the table it writes to

vars == <<pc, pipeline, args, records, url_i, fetched, i, transformed,
          tracker, client, j, inserted, failed, calls, result,
          listed_buildings, conservation_areas, now, opened, frame, target_table>>

\* The variables of the ingest functions and those of batch_insert.
ingest_vars == <<pc, pipeline, args, records, url_i, fetched, i, transformed,
                 tracker, client, j, inserted, failed, calls, result,
                 listed_buildings, conservation_areas, now, opened>>
batch_vars == <<frame, target_table>>

----------------------------------------------------------------------------
(* Python values *)

PyNone == [k |-> "None", n |-> 0, s |-> <<>>, items |-> <<>>]
PyBool(b) == [k |-> "bool", n |-> IF b THEN 1 ELSE 0, s |-> <<>>, items |-> <<>>]
PyNum(x) == [k |-> "num", n |-> x, s |-> <<>>, items |-> <<>>]
PyStr(chars) == [k |-> "str", n |-> 0, s |-> chars, items |-> <<>>]
PyList(xs) == [k |-> "list", n |-> 0, s |-> <<>>, items |-> xs]
KV(key, v) == [k |-> "pair", n |-> 0, s |-> <<key>>, items |-> <<v>>]
PyDict(pairs) == [k |-> "dict", n |-> 0, s |-> <<>>, items |-> pairs]

\* An exception in flight, named by its class.
Exc(name) == [k |-> "exc", n |-> 0, s |-> <<name>>, items |-> <<>>]
IsExc(v) == v.k = "exc"

\* bool(v)
Truthy(v) ==
    CASE v.k = "None" -> FALSE
      [] v.k = "bool" -> v.n = 1
      [] v.k = "num" -> v.n # 0
      [] v.k = "str" -> v.s # <<>>
      [] v.k = "list" -> v.items # <<>>
      [] v.k = "dict" -> v.items # <<>>
      [] OTHER -> TRUE

HasKey(d, key) == \E p \in 1..Len(d.items) : d.items[p].s = <<key>>

\* d[key] for a dict d holding key
Item(d, key) ==
    d.items[CHOOSE p \in 1..Len(d.items) :
                /\ d.items[p].s = <<key>>
                /\ \A q \in 1..(p - 1) : d.items[q].s # <<key>>].items[1]

\* d.get(key, default); anything but a dict has no .get
GetD(d, key, default) ==
    IF d.k # "dict" THEN Exc("AttributeError")
    ELSE IF HasKey(d, key) THEN Item(d, key) ELSE default

Get(d, key) == GetD(d, key, PyNone)

\* First exception among the operands of an expression, evaluated left to right,
\* else the value.
FirstExc(vs, value) ==
    IF \E p \in 1..Len(vs) : IsExc(vs[p])
    THEN vs[CHOOSE p \in 1..Len(vs) : IsExc(vs[p]) /\ \A q \in 1..(p - 1) : ~IsExc(vs[q])]
    ELSE value

\* v1 or v2 or ... or vn: the first truthy operand, else the last one
RECURSIVE OrChain(_)
OrChain(vs) ==
    IF Len(vs) = 1 THEN vs[1]
    ELSE IF IsExc(Head(vs)) \/ Truthy(Head(vs)) THEN Head(vs)
    ELSE OrChain(Tail(vs))

\* d.get(k1) or d.get(k2) or ... for the keys in order
GetAny(d, keys) == OrChain([p \in 1..Len(keys) |-> Get(d, keys[p])])

\* d.get(k1) or d.get(k2) or ... or last
GetAnyOr(d, keys, last) == OrChain(Append([p \in 1..Len(keys) |-> Get(d, keys[p])], last))

----------------------------------------------------------------------------
(* Text *)

UpperAlpha == <<"A", "B", "C", "D", "E", "F", "G", "H", "I", "J", "K", "L", "M",
                "N", "O", "P", "Q", "R", "S", "T", "U", "V", "W", "X", "Y", "Z">>
LowerAlpha == <<"a", "b", "c", "d", "e", "f", "g", "h", "i", "j", "k", "l", "m",
                "n", "o", "p", "q", "r", "s", "t", "u", "v", "w", "x", "y", "z">>

IsUpper(c) == \E p \in 1..26 : UpperAlpha[p] = c
IsLower(c) == \E p \in 1..26 : LowerAlpha[p] = c
IsLetter(c) == IsUpper(c) \/ IsLower(c)
LowerChar(c) == IF IsUpper(c) THEN LowerAlpha[CHOOSE p \in 1..26 : UpperAlpha[p] = c] ELSE c
UpperChar(c) == IF IsLower(c) THEN UpperAlpha[CHOOSE p \in 1..26 : LowerAlpha[p] = c] ELSE c
IsSpace(c) == c \in {" ", "\t", "\n"}

\* str.lower()
Lower(t) == [p \in 1..Len(t) |-> LowerChar(t[p])]

\* str.title(): a letter that follows a non-letter is upper-cased, every other
\* letter lower-cased
Title(t) ==
    [p \in 1..Len(t) |->
        IF p = 1 \/ ~IsLetter(t[p - 1]) THEN UpperChar(t[p]) ELSE LowerChar(t[p])]

\* str.strip()
RECURSIVE LStrip(_)
LStrip(t) == IF t # <<>> /\ IsSpace(Head(t)) THEN LStrip(Tail(t)) ELSE t
RECURSIVE RStrip(_)
RStrip(t) ==
    IF t # <<>> /\ IsSpace(t[Len(t)]) THEN RStrip(SubSeq(t, 1, Len(t) - 1)) ELSE t
Strip(t) == RStrip(LStrip(t))

\* needle in hay
Contains(hay, needle) ==
    \E p \in 0..(Len(hay) - Len(needle)) : SubSeq(hay, p + 1, p + Len(needle)) = needle

\* str.split(): the maximal runs of non-whitespace symbols
RECURSIVE SplitFrom(_, _, _)
SplitFrom(t, cur, acc) ==
    IF t = <<>> THEN (IF cur = <<>> THEN acc ELSE Append(acc, cur))
    ELSE IF IsSpace(Head(t))
         THEN SplitFrom(Tail(t), <<>>, IF cur = <<>> THEN acc ELSE Append(acc, cur))
         ELSE SplitFrom(Tail(t), Append(cur, Head(t)), acc)
Split(t) == SplitFrom(t, <<>>, <<>>)

\* str.replace(sym, '') for a one-symbol pattern
Remove(t, sym) == SelectSeq(t, LAMBDA c : c # sym)

\* The numbers that occur in the inputs, and their printed form: one symbol each.
Numerals == (-31..1) \cup (5149..5166) \cup {1000, 4000}
NumeralText(x) == ToString(x)
IsNumeral(sym) == \E x \in Numerals : NumeralText(x) = sym
NumeralValue(sym) == CHOOSE x \in Numerals : NumeralText(x) = sym

\* str(v) / f"{v}" of a scalar
StrOf(v) ==
    CASE v.k = "str" -> v.s
      [] v.k = "num" -> <<NumeralText(v.n)>>
      [] v.k = "None" -> <<"N", "o", "n", "e">>
      [] v.k = "bool" -> IF v.n = 1 THEN <<"T", "r", "u", "e">> ELSE <<"F", "a", "l", "s", "e">>
      [] OTHER -> <<"<repr>">>

\* float(v): a number, or an exception
Float(v) ==
    CASE v.k = "num" -> PyNum(v.n)
      [] v.k = "bool" -> PyNum(100 * v.n)
      [] v.k = "str" ->
            LET t == Strip(v.s)
            IN IF Len(t) = 1 /\ IsNumeral(t[1]) THEN PyNum(NumeralValue(t[1]))
               ELSE Exc("ValueError")
      [] OTHER -> Exc("TypeError")

----------------------------------------------------------------------------
(* utils.py: target boroughs *)

T_Camden == <<"C", "a", "m", "d", "e", "n">>
T_Barnet == <<"B", "a", "r", "n", "e", "t">>
T_Westminster == <<"W", "e", "s", "t", "m", "i", "n", "s", "t", "e", "r">>
T_Haringey == <<"H", "a", "r", "i", "n", "g", "e", "y">>
T_Brent == <<"B", "r", "e", "n", "t">>
T_Islington == <<"I", "s", "l", "i", "n", "g", "t", "o", "n">>

TARGET_BOROUGHS == <<T_Camden, T_Barnet, T_Westminster, T_Haringey, T_Brent, T_Islington>>

\* The match test of is_target_borough on the cleaned text.
BoroughMatches(borough_clean) ==
    \E p \in 1..Len(TARGET_BOROUGHS) :
        Contains(Lower(borough_clean), Lower(TARGET_BOROUGHS[p]))

\* is_target_borough(borough): a bool, or the exception of .strip() on a
\* value that is no string
is_target_borough(borough) ==
    IF ~Truthy(borough) THEN PyBool(FALSE)
    ELSE IF borough.k # "str" THEN Exc("AttributeError")
    ELSE PyBool(BoroughMatches(Title(Strip(borough.s))))

----------------------------------------------------------------------------
(* utils.py: parse_date *)

Digits == <<"0", "1", "2", "3", "4", "5", "6", "7", "8", "9">>
IsDigit(c) == \E p \in 1..10 : Digits[p] = c
DigitVal(c) == (CHOOSE p \in 1..10 : Digits[p] = c) - 1

RECURSIVE NatOf(_)
NatOf(t) == IF t = <<>> THEN 0 ELSE 10 * NatOf(SubSeq(t, 1, Len(t) - 1)) + DigitVal(t[Len(t)])

\* Month names as strptime's %B knows them (matched ignoring case).
MonthNames ==
  << <<"j", "a", "n", "u", "a", "r", "y">>,
     <<"f", "e", "b", "r", "u", "a", "r", "y">>,
     <<"m", "a", "r", "c", "h">>,
     <<"a", "p", "r", "i", "l">>,
     <<"m", "a", "y">>,
     <<"j", "u", "n", "e">>,
     <<"j", "u", "l", "y">>,
     <<"a", "u", "g", "u", "s", "t">>,
     <<"s", "e", "p", "t", "e", "m", "b", "e", "r">>,
     <<"o", "c", "t", "o", "b", "e", "r">>,
     <<"n", "o", "v", "e", "m", "b", "e", "r">>,
     <<"d", "e", "c", "e", "m", "b", "e", "r">> >>

\* The class of a character for the directives of the six formats.
CharClass(c) ==
    IF IsDigit(c) THEN "digits"
    ELSE IF IsLetter(c) THEN "letters"
    ELSE IF IsSpace(c) THEN "space"
    ELSE c

\* The text cut into maximal runs of digits, of letters and of whitespace; any
\* other character is a run of its own.
RECURSIVE Runs(_, _)
Runs(t, acc) ==
    IF t = <<>> THEN acc
    ELSE LET c == Head(t)
             cls == CharClass(c)
             n == Len(acc)
         IN IF n > 0 /\ acc[n].cls = cls /\ cls \in {"digits", "letters", "space"}
            THEN Runs(Tail(t), [acc EXCEPT ![n].t = Append(@, c)])
            ELSE Runs(Tail(t), Append(acc, [cls |-> cls, t |-> <<c>>]))

\* The formats list of parse_date, each directive or literal one element.
DateFormats ==
    << <<"%Y", "-", "%m", "-", "%d">>,
       <<"%d", "/", "%m", "/", "%Y">>,
       <<"%d", "-", "%m", "-", "%Y">>,
       <<"%Y", "/", "%m", "/", "%d">>,
       <<"%d", "space", "%B", "space", "%Y">>,
       <<"%B", "space", "%d", ",", "space", "%Y">> >>

\* Whether a run is matched, whole, by a directive or literal of a format.
RunMatches(run, el) ==
    CASE el = "%Y" -> run.cls = "digits" /\ Len(run.t) = 4
      [] el = "%m" -> run.cls = "digits" /\ Len(run.t) \in {1, 2} /\ NatOf(run.t) \in 1..12
      [] el = "%d" -> run.cls = "digits" /\ Len(run.t) \in {1, 2} /\ NatOf(run.t) \in 1..31
      [] el = "%B" -> run.cls = "letters" /\ \E m \in 1..12 : MonthNames[m] = Lower(run.t)
      [] el = "space" -> run.cls = "space"
      [] OTHER -> run.cls = el

FieldOf(runs, fmt, el) ==
    LET p == CHOOSE q \in 1..Len(fmt) : fmt[q] = el
    IN IF el = "%B" THEN CHOOSE m \in 1..12 : MonthNames[m] = Lower(runs[p].t)
       ELSE NatOf(runs[p].t)

MonthOf(runs, fmt) ==
    IF \E q \in 1..Len(fmt) : fmt[q] = "%B" THEN FieldOf(runs, fmt, "%B")
    ELSE FieldOf(runs, fmt, "%m")

IsLeap(y) == (y % 4 = 0 /\ y % 100 # 0) \/ y % 400 = 0
DaysIn(y, m) ==
    IF m = 2 THEN (IF IsLeap(y) THEN 29 ELSE 28)
    ELSE IF m \in {4, 6, 9, 11} THEN 30 ELSE 31

\* The runs of a text as a format reads them: %d also takes one blank and a
\* digit from 1 to 9, which shows where %d ends the format (a blank before
\* it elsewhere belongs to the whitespace in front or has been stripped).
DateRuns(t, fmt) ==
    LET runs == Runs(t, <<>>)
        n == Len(runs)
    IN IF /\ fmt[Len(fmt)] = "%d"
          /\ n = Len(fmt) + 1
          /\ runs[n - 1].t = <<" ">>
          /\ runs[n].cls = "digits" /\ Len(runs[n].t) = 1 /\ NatOf(runs[n].t) \in 1..9
       THEN SubSeq(runs, 1, n - 2) \o <<runs[n]>>
       ELSE runs

\* datetime.strptime(text, fmt) succeeds
Strptime(t, fmt) ==
    LET runs == DateRuns(t, fmt)
    IN /\ Len(runs) = Len(fmt)
       /\ \A p \in 1..Len(fmt) : RunMatches(runs[p], fmt[p])
       /\ FieldOf(runs, fmt, "%Y") >= 1
       /\ FieldOf(runs, fmt, "%d") <= DaysIn(FieldOf(runs, fmt, "%Y"), MonthOf(runs, fmt))

Pad2(x) == <<Digits[(x \div 10) + 1], Digits[(x % 10) + 1]>>
Pad4(x) == Pad2(x \div 100) \o Pad2(x % 100)

\* date.isoformat() of the date a format parsed
IsoOf(t, fmt) ==
    LET runs == DateRuns(t, fmt)
    IN Pad4(FieldOf(runs, fmt, "%Y")) \o <<"-">> \o Pad2(MonthOf(runs, fmt))
         \o <<"-">> \o Pad2(FieldOf(runs, fmt, "%d"))

\* parse_date(date_str): ISO text, None, or the exception of .strip() on a
\* truthy value that is no string
parse_date(date_str) ==
    IF ~Truthy(date_str) THEN PyNone
    ELSE IF date_str.k # "str" THEN Exc("AttributeError")
    ELSE LET t == Strip(date_str.s)
             ok == {f \in 1..Len(DateFormats) : Strptime(t, DateFormats[f])}
         IN IF ok = {} THEN PyNone
            ELSE PyStr(IsoOf(t, DateFormats[CHOOSE f \in ok : \A g \in ok : f <= g]))

----------------------------------------------------------------------------
(* ingest_listed_buildings.py: transform_he_record *)

\* NW_LONDON_BOUNDS, in hundredths of a degree
min_lng == -30
max_lng == 0
min_lat == 5150
max_lat == 5165

T_Point == <<"P", "o", "i", "n", "t">>
T_Unknown == <<"U", "n", "k", "n", "o", "w", "n">>
T_London == <<"L", "o", "n", "d", "o", "n">>
T_historic_england == <<"h", "i", "s", "t", "o", "r", "i", "c", "_", "e", "n", "g", "l", "a", "n", "d">>
T_I == <<"I">>
T_IIstar == <<"I", "I", "*">>
T_II == <<"I", "I">>

\* lng, lat = geometry['coordinates']: the two items, or the exception of
\* unpacking something that has not exactly two
Unpack2(c) ==
    CASE c.k = "list" -> IF Len(c.items) = 2 THEN c ELSE Exc("ValueError")
      [] c.k = "str" ->
            IF Len(c.s) = 2 THEN PyList(<<PyStr(<<c.s[1]>>), PyStr(<<c.s[2]>>)>>)
            ELSE Exc("ValueError")
      [] c.k = "dict" ->
            IF Len(c.items) = 2 THEN PyList(<<PyStr(c.items[1].s), PyStr(c.items[2].s)>>)
            ELSE Exc("ValueError")
      [] OTHER -> Exc("TypeError")

\* Coordinates from the named properties: [lng, lat], None when one is
\* missing, or an exception.
PropertyCoords(properties) ==
    LET lng == GetAny(properties, <<"Longitude", "longitude", "Easting">>)
        lat == GetAny(properties, <<"Latitude", "latitude", "Northing">>)
    IN IF IsExc(lng) THEN lng
       ELSE IF lng = PyNone \/ lat = PyNone THEN PyNone
       ELSE PyList(<<lng, lat>>)

\* The coordinate extraction of transform_he_record.
ExtractCoords(properties, geometry) ==
    IF ~Truthy(geometry) THEN PropertyCoords(properties)
    ELSE IF geometry.k # "dict" THEN Exc("AttributeError")
    ELSE IF Get(geometry, "type") = PyStr(T_Point)
         THEN IF HasKey(geometry, "coordinates")
              THEN Unpack2(Item(geometry, "coordinates"))
              ELSE Exc("KeyError")
         ELSE PropertyCoords(properties)

\* A variant of the box test that looks at the longitude alone.
InBoundsLngOnly(lng, lat) ==
    LET x == Float(lng)
    IN IF IsExc(x) THEN x ELSE PyBool(min_lng <= x.n /\ x.n <= max_lng)

\* min_lng <= float(lng) <= max_lng and min_lat <= float(lat) <= max_lat:
\* a bool, or the exception of float(); lat is not read when lng fails
InBounds(lng, lat) ==
    LET x == Float(lng)
        y == Float(lat)
    IN IF IsExc(x) THEN x
       ELSE IF ~(min_lng <= x.n /\ x.n <= max_lng) THEN PyBool(FALSE)
       ELSE IF IsExc(y) THEN y
       ELSE PyBool(min_lat <= y.n /\ y.n <= max_lat)

\* The borough a listed-building record carries.
HeBorough(properties) ==
    GetAnyOr(properties, <<"LocalAuthority", "District", "Borough">>, PyStr(<<>>))

\* A variant of the borough test that does not ask whether a borough is there.
RejectsUnlessTarget(borough) ==
    LET t == is_target_borough(borough)
    IN IF IsExc(t) THEN t ELSE PyBool(~Truthy(t))

\* if borough and not is_target_borough(borough): a bool, or an exception
HeBoroughRejects(borough) ==
    IF ~Truthy(borough) THEN PyBool(FALSE)
    ELSE LET t == is_target_borough(borough)
         IN IF IsExc(t) THEN t ELSE PyBool(~Truthy(t))

\* A variant of the grade lookup that passes an unknown token on.
GradeAsGiven(properties) ==
    PyStr(Strip(StrOf(GetAnyOr(properties, <<"Grade", "grade">>, PyStr(T_II)))))

\* grade_map.get(str(grade_raw).strip(), 'II')
GradeOf(properties) ==
    LET grade_raw == GetAnyOr(properties, <<"Grade", "grade">>, PyStr(T_II))
        key == Strip(StrOf(grade_raw))
    IN CASE key = T_I -> PyStr(T_I)
         [] key = T_IIstar -> PyStr(T_IIstar)
         [] key = T_II -> PyStr(T_II)
         [] key = <<"2", "*">> -> PyStr(T_IIstar)
         [] key = <<"2">> -> PyStr(T_II)
         [] key = <<"1">> -> PyStr(T_I)
         [] OTHER -> PyStr(T_II)

\* f"POINT({lng} {lat})"
PointWkt(lng, lat) == PyStr(<<"POINT(">> \o StrOf(lng) \o <<" ">> \o StrOf(lat) \o <<")">>)

\* The record transform_he_record builds once the filters have passed.
HeRecord(properties, lng, lat, borough) ==
    LET list_date == parse_date(GetAny(properties, <<"ListDate", "DateListed">>))
        amended_date == parse_date(GetAny(properties, <<"AmendDate", "DateAmended">>))
    IN FirstExc(<<list_date, amended_date>>,
        PyDict(<<
          KV("list_entry_number",
             PyStr(StrOf(GetAny(properties, <<"ListEntry", "list_entry", "ListEntryNumber">>)))),
          KV("name", GetAnyOr(properties, <<"Name", "name">>, PyStr(T_Unknown))),
          KV("grade", GradeOf(properties)),
          KV("address_line_1", GetAny(properties, <<"Location", "Address", "address">>)),
          KV("address_line_2", GetAnyOr(properties, <<"Address2">>, PyNone)),
          KV("town", GetAnyOr(properties, <<"Town", "PostTown">>, PyStr(T_London))),
          KV("postcode", GetAny(properties, <<"Postcode", "postcode">>)),
          KV("borough", borough),
          KV("location", PointWkt(lng, lat)),
          KV("list_date", list_date),
          KV("amended_date", amended_date),
          KV("legacy_uid", GetAny(properties, <<"LegacyUID", "legacy_uid">>)),
          KV("documentation_url", GetAny(properties, <<"Hyperlink", "URL">>)),
          KV("data_source", PyStr(T_historic_england)) >>))

\* The body of transform_he_record inside its try: the record, None for a
\* rejection, or the exception that reaches the except clause.
HeTryBody(record) ==
    LET properties == GetD(record, "properties", record)
        geometry == Get(record, "geometry")
        coords == ExtractCoords(properties, geometry)
    IN IF IsExc(properties) THEN properties
       ELSE IF IsExc(coords) THEN coords
       ELSE IF coords = PyNone THEN PyNone
       ELSE LET lng == coords.items[1]
                lat == coords.items[2]
                inb == InBounds(lng, lat)
                borough == HeBorough(properties)
                rej == HeBoroughRejects(borough)
            IN IF IsExc(inb) THEN inb
               ELSE IF ~Truthy(inb) THEN PyNone
               ELSE IF IsExc(borough) THEN borough
               ELSE IF IsExc(rej) THEN rej
               ELSE IF Truthy(rej) THEN PyNone
               ELSE HeRecord(properties, lng, lat, borough)

\* A variant without the except clause: the exception leaves the function.
Reraise(v) == v

\* except Exception: log and return None
CatchAll(v) == IF IsExc(v) THEN PyNone ELSE v

transform_he_record(record) == CatchAll(HeTryBody(record))

----------------------------------------------------------------------------
(* utils.py: validate_geometry, ensure_multipolygon *)

T_Polygon == <<"P", "o", "l", "y", "g", "o", "n">>
T_MultiPolygon == <<"M", "u", "l", "t", "i", "P", "o", "l", "y", "g", "o", "n">>
T_LineString == <<"L", "i", "n", "e", "S", "t", "r", "i", "n", "g">>
T_GeometryCollection == <<"G", "e", "o", "m", "e", "t", "r", "y", "C", "o", "l", "l", "e", "c", "t", "i", "o", "n">>

Geom(type, coordinates) == PyDict(<<KV("type", PyStr(type)), KV("coordinates", coordinates)>>)
Pt(x, y) == PyList(<<PyNum(x), PyNum(y)>>)

IsNumList(v) == v.k = "list" /\ \A p \in 1..Len(v.items) : v.items[p].k = "num"
IsPosition(v) == IsNumList(v) /\ Len(v.items) \in {2, 3}
IsPositions(v, least) ==
    v.k = "list" /\ Len(v.items) >= least /\ \A p \in 1..Len(v.items) : IsPosition(v.items[p])
IsRings(v) == v.k = "list" /\ \A p \in 1..Len(v.items) : IsPositions(v.items[p], 3)
IsPolygons(v) == v.k = "list" /\ \A p \in 1..Len(v.items) : IsRings(v.items[p])

\* shapely's _is_coordinates_empty: nothing but empty lists, to any depth
RECURSIVE CoordsEmpty(_)
CoordsEmpty(v) ==
    \/ v.k = "None"
    \/ /\ v.k = "list"
       /\ \A p \in 1..Len(v.items) : CoordsEmpty(v.items[p])

\* The geometry types shape() builds from coordinates, by lower-cased name,
\* with the name mapping() gives back.
ShapeTypes ==
    << <<Lower(T_Point), T_Point>>, <<Lower(T_LineString), T_LineString>>,
       <<Lower(T_Polygon), T_Polygon>>, <<Lower(T_MultiPolygon), T_MultiPolygon>> >>

\* A geometry collection as mapping() writes it.
Collection(geometries) ==
    PyDict(<<KV("type", PyStr(T_GeometryCollection)), KV("geometries", PyList(geometries))>>)

\* A variant of CloseRing that repeats the first position whatever the last.
CloseAgain(r) == PyList(Append(r.items, r.items[1]))

\* A ring as shapely holds it: closed.
CloseRing(r) ==
    IF r.items[1] = r.items[Len(r.items)] THEN r ELSE PyList(Append(r.items, r.items[1]))
CloseRings(rs) == PyList([p \in 1..Len(rs.items) |-> CloseRing(rs.items[p])])

\* shapely.geometry.shape(geom): the geometry (written as mapping() would
\* write it), or the exception it raises.
RECURSIVE Shape(_)
Shape(geom) ==
    IF geom.k # "dict" THEN Exc("AttributeError")
    ELSE IF Get(geom, "type").k # "str" THEN Exc("AttributeError")
    ELSE LET t == Lower(Get(geom, "type").s)
             known == {p \in 1..Len(ShapeTypes) : ShapeTypes[p][1] = t}
             type == ShapeTypes[CHOOSE p \in known : TRUE][2]
             c == Get(geom, "coordinates")
             geometries == GetD(geom, "geometries", PyList(<<>>))
             geoms == [p \in 1..Len(geometries.items) |-> Shape(geometries.items[p])]
         IN IF t = Lower(T_GeometryCollection)
            THEN (IF HasKey(geom, "coordinates") /\ CoordsEmpty(c) THEN Collection(<<>>)
                  ELSE IF geometries.k # "list" THEN Exc("TypeError")
                  ELSE FirstExc(geoms, Collection(geoms)))
            ELSE IF HasKey(geom, "coordinates") /\ CoordsEmpty(c)
            THEN (IF known = {} THEN Exc("GeometryTypeError") ELSE Geom(type, PyList(<<>>)))
            ELSE IF known = {} THEN Exc("GeometryTypeError")
            ELSE IF ~HasKey(geom, "coordinates") THEN Exc("KeyError")
            ELSE CASE type = T_Point ->
                        IF IsPosition(c) THEN Geom(type, c) ELSE Exc("TypeError")
                   [] type = T_LineString ->
                        IF IsPositions(c, 2) THEN Geom(type, c) ELSE Exc("ValueError")
                   [] type = T_Polygon ->
                        IF IsRings(c) THEN Geom(type, CloseRings(c)) ELSE Exc("ValueError")
                   [] OTHER ->
                        IF IsPolygons(c)
                        THEN Geom(type, PyList([p \in 1..Len(c.items) |-> CloseRings(c.items[p])]))
                        ELSE Exc("ValueError")

\* Rings used by the inputs.
SquareRing == PyList(<<Pt(0, 0), Pt(0, 2), Pt(2, 2), Pt(2, 0), Pt(0, 0)>>)
OpenSquareRing == PyList(<<Pt(0, 0), Pt(0, 2), Pt(2, 2), Pt(2, 0)>>)
BowtieRing == PyList(<<Pt(0, 0), Pt(2, 2), Pt(2, 0), Pt(0, 2), Pt(0, 0)>>)
CollinearRing == PyList(<<Pt(0, 0), Pt(1, 1), Pt(2, 2), Pt(0, 0)>>)
SpikeRing == PyList(<<Pt(0, 0), Pt(0, 2), Pt(2, 2), Pt(3, 3), Pt(2, 2), Pt(2, 0), Pt(0, 0)>>)
FarSquareRing == PyList(<<Pt(4, 4), Pt(4, 6), Pt(6, 6), Pt(6, 4), Pt(4, 4)>>)

\* What shapely's make_valid gives for the invalid geometries among the
\* inputs: a bow-tie splits into its two triangles, a ring without area
\* collapses to a line, a spike is split off as a line, doubled parts merge.
Repairs ==
    << <<Geom(T_Polygon, PyList(<<BowtieRing>>)),
         Geom(T_MultiPolygon, PyList(<<
            PyList(<<PyList(<<Pt(0, 0), Pt(0, 2), Pt(1, 1), Pt(0, 0)>>)>>),
            PyList(<<PyList(<<Pt(1, 1), Pt(2, 2), Pt(2, 0), Pt(1, 1)>>)>>) >>))>>,
       <<Geom(T_Polygon, PyList(<<CollinearRing>>)),
         Geom(T_LineString, PyList(<<Pt(0, 0), Pt(1, 1), Pt(2, 2)>>))>>,
       <<Geom(T_Polygon, PyList(<<SpikeRing>>)),
         Collection(<<Geom(T_Polygon, PyList(<<SquareRing>>)),
                      Geom(T_LineString, PyList(<<Pt(2, 2), Pt(3, 3)>>))>>)>>,
       <<Geom(T_MultiPolygon, PyList(<<PyList(<<SquareRing>>), PyList(<<SquareRing>>)>>)),
         Geom(T_Polygon, PyList(<<SquareRing>>))>> >>

\* shapely_geom.is_valid
IsValid(g) == \A p \in 1..Len(Repairs) : Repairs[p][1] # g

\* shapely.validation.make_valid(shapely_geom), for a geometry that is not valid
MakeValid(g) == Repairs[CHOOSE p \in 1..Len(Repairs) : Repairs[p][1] = g][2]

\* shapely_geom.is_empty: no coordinates, or a collection of nothing but
\* empty members
RECURSIVE IsEmpty(_)
IsEmpty(g) ==
    IF HasKey(g, "geometries")
    THEN \A p \in 1..Len(Get(g, "geometries").items) : IsEmpty(Get(g, "geometries").items[p])
    ELSE HasKey(g, "coordinates") /\ CoordsEmpty(Get(g, "coordinates"))

\* The body of validate_geometry inside its try.
ValidateTryBody(geom) ==
    LET shapely_geom == Shape(geom)
        fixed == IF IsValid(shapely_geom) THEN shapely_geom ELSE MakeValid(shapely_geom)
    IN IF IsExc(shapely_geom) THEN shapely_geom
       ELSE IF IsEmpty(fixed) THEN PyNone
       ELSE fixed

\* validate_geometry(geom): the valid geometry or None
validate_geometry(geom) == CatchAll(ValidateTryBody(geom))

\* A variant that hands the geometry back as it came.
SameGeometry(geom) == geom

\* ensure_multipolygon(geom)
ensure_multipolygon(geom) ==
    IF Get(geom, "type") = PyStr(T_Polygon)
    THEN Geom(T_MultiPolygon, PyList(<<Get(geom, "coordinates")>>))
    ELSE geom

----------------------------------------------------------------------------
(* ingest_conservation_areas.py: transform_ca_record *)

T_LB == <<"L", "B", " ">>
T_City_of_Westminster == <<"C", "i", "t", "y", " ", "o", "f", " ", "W", "e", "s", "t", "m", "i", "n", "s", "t", "e", "r">>
T_Unknown_Conservation_Area == <<"U", "n", "k", "n", "o", "w", "n", " ", "C", "o", "n", "s", "e", "r", "v", "a", "t", "i", "o", "n", " ", "A", "r", "e", "a">>
T_london_datastore == <<"l", "o", "n", "d", "o", "n", "_", "d", "a", "t", "a", "s", "t", "o", "r", "e">>
T_article_4 == <<"a", "r", "t", "i", "c", "l", "e", " ", "4">>

\* sep.join(parts)
RECURSIVE Join(_, _)
Join(parts, sep) ==
    IF parts = <<>> THEN <<>>
    ELSE IF Len(parts) = 1 THEN parts[1]
    ELSE parts[1] \o sep \o Join(Tail(parts), sep)

\* repr(v), which is str(v) for a container; a key is written as one symbol
RECURSIVE Repr(_)
Repr(v) ==
    CASE v.k = "str" -> <<"'">> \o v.s \o <<"'">>
      [] v.k = "list" ->
            <<"[">> \o Join([p \in 1..Len(v.items) |-> Repr(v.items[p])], <<",", " ">>) \o <<"]">>
      [] v.k = "dict" ->
            <<"{">> \o Join([p \in 1..Len(v.items) |->
                                <<"'">> \o v.items[p].s \o <<"'", ":", " ">>
                                    \o Repr(v.items[p].items[1])],
                            <<",", " ">>) \o <<"}">>
      [] OTHER -> StrOf(v)

\* str.split(','): the pieces between the commas
RECURSIVE SplitComma(_, _, _)
SplitComma(t, cur, acc) ==
    IF t = <<>> THEN Append(acc, cur)
    ELSE IF Head(t) = "," THEN SplitComma(Tail(t), <<>>, Append(acc, cur))
    ELSE SplitComma(Tail(t), Append(cur, Head(t)), acc)

\* The text of a coordinate structure in WKT: a position is "x y", anything
\* above it a parenthesised, comma-separated list.
RECURSIVE WktCoords(_)
WktCoords(v) ==
    IF IsNumList(v) /\ v.items # <<>>
    THEN Join([p \in 1..Len(v.items) |-> <<NumeralText(v.items[p].n)>>], <<" ">>)
    ELSE <<"(">> \o Join([p \in 1..Len(v.items) |-> WktCoords(v.items[p])], <<",", " ">>)
           \o <<")">>

\* shape(geom).wkt for a geometry with coordinates: the type tag in capitals,
\* then the coordinates
Wkt(geom) ==
    PyStr([p \in 1..Len(Get(geom, "type").s) |-> UpperChar(Get(geom, "type").s[p])]
          \o <<" ">> \o WktCoords(Get(geom, "coordinates")))

\* Twice the signed planar area of a ring (shoelace formula).
RECURSIVE Shoelace(_, _)
Shoelace(r, p) ==
    IF p >= Len(r.items) THEN 0
    ELSE r.items[p].items[1].n * r.items[p + 1].items[2].n
           - r.items[p + 1].items[1].n * r.items[p].items[2].n + Shoelace(r, p + 1)
Abs(x) == IF x < 0 THEN -x ELSE x
RECURSIVE SumSeq(_)
SumSeq(xs) == IF xs = <<>> THEN 0 ELSE Head(xs) + SumSeq(Tail(xs))

\* Twice the area of one polygon: the shell less the holes.
PolygonArea2(rings) ==
    Abs(Shoelace(rings.items[1], 1))
      - SumSeq([h \in 1..(Len(rings.items) - 1) |-> Abs(Shoelace(rings.items[h + 1], 1))])

\* shapely_geom.area of a Polygon or MultiPolygon, doubled. area_hectares is
\* this number times a fixed factor, which the model leaves out.
Area2(geom) ==
    IF Get(geom, "type") = PyStr(T_Polygon) THEN PolygonArea2(Get(geom, "coordinates"))
    ELSE SumSeq([p \in 1..Len(Get(geom, "coordinates").items) |->
                    PolygonArea2(Get(geom, "coordinates").items[p])])

\* The "Ensure MultiPolygon" step: the geometry to store, or None for a type
\* that is neither Polygon nor MultiPolygon.
EnsureStep(validated_geom) ==
    IF Get(validated_geom, "type") = PyStr(T_Polygon) THEN ensure_multipolygon(validated_geom)
    ELSE IF Get(validated_geom, "type") # PyStr(T_MultiPolygon) THEN PyNone
    ELSE validated_geom

\* borough_map.get(borough, borough)
BoroughMap(borough) ==
    IF borough.k # "str" THEN borough
    ELSE CASE borough.s = T_LB \o T_Camden -> PyStr(T_Camden)
           [] borough.s = T_LB \o T_Barnet -> PyStr(T_Barnet)
           [] borough.s = T_City_of_Westminster -> PyStr(T_Westminster)
           [] borough.s = T_LB \o T_Haringey -> PyStr(T_Haringey)
           [] borough.s = T_LB \o T_Brent -> PyStr(T_Brent)
           [] borough.s = T_LB \o T_Islington -> PyStr(T_Islington)
           [] OTHER -> borough

\* The borough a conservation-area record carries.
CaBorough(properties) ==
    LET raw == GetAnyOr(properties, <<"borough", "Borough", "LOCAL_AUTHORITY", "LocalAuthority">>,
                        PyStr(<<>>))
    IN IF IsExc(raw) THEN raw
       ELSE IF raw.k \in {"list", "dict"} THEN Exc("TypeError")
       ELSE BoroughMap(raw)

\* The Article 4 test: the first truthy operand, else the outcome of the
\* text search in str(properties).
HasArticle4(properties) ==
    OrChain(<<GetD(properties, "has_article_4", PyBool(FALSE)),
              GetD(properties, "ARTICLE_4", PyBool(FALSE)),
              GetD(properties, "article4", PyBool(FALSE)),
              PyBool(Contains(Lower(Repr(properties)), T_article_4))>>)

\* A variant that keeps the pieces of a comma-separated text as they are cut.
RestrictionsAsCut(properties, has_article_4) ==
    LET restrictions_raw == GetAny(properties, <<"article_4_restrictions", "A4_RESTRICTIONS">>)
    IN IF ~Truthy(has_article_4) \/ ~Truthy(restrictions_raw) THEN PyNone
       ELSE IF restrictions_raw.k = "list" THEN restrictions_raw
       ELSE IF restrictions_raw.k = "str"
            THEN LET parts == SplitComma(restrictions_raw.s, <<>>, <<>>)
                 IN PyList([p \in 1..Len(parts) |-> PyStr(parts[p])])
       ELSE PyNone

\* article_4_restrictions
Restrictions(properties, has_article_4) ==
    LET restrictions_raw == GetAny(properties, <<"article_4_restrictions", "A4_RESTRICTIONS">>)
    IN IF ~Truthy(has_article_4) \/ ~Truthy(restrictions_raw) THEN PyNone
       ELSE IF restrictions_raw.k = "list" THEN restrictions_raw
       ELSE IF restrictions_raw.k = "str"
            THEN LET parts == SplitComma(restrictions_raw.s, <<>>, <<>>)
                 IN PyList([p \in 1..Len(parts) |-> PyStr(Strip(parts[p]))])
       ELSE PyNone

\* The record transform_ca_record builds once the filters have passed.
CaRecord(properties, validated_geom, borough) ==
    LET has_article_4 == HasArticle4(properties)
        designation_date ==
            parse_date(GetAny(properties, <<"designation_date", "DATE_DESIGNATED">>))
        article_4_date == parse_date(GetAny(properties, <<"article_4_date", "A4_DATE">>))
    IN FirstExc(<<designation_date, article_4_date>>,
        PyDict(<<
          KV("name", GetAnyOr(properties,
                <<"CA_NAME", "name", "Name", "NAME", "conservation_area_name">>,
                PyStr(T_Unknown_Conservation_Area))),
          KV("reference", GetAnyOr(properties, <<"CA_REF", "reference", "REF", "ca_id">>, PyNone)),
          KV("borough", borough),
          KV("designation_date", designation_date),
          KV("boundary_wkt", Wkt(validated_geom)),
          KV("area_hectares", PyNum(Area2(validated_geom))),
          KV("description", GetAny(properties, <<"description", "DESCRIPTION">>)),
          KV("character_appraisal_url", GetAny(properties, <<"character_appraisal_url", "CA_URL">>)),
          KV("management_plan_url", Get(properties, "management_plan_url")),
          KV("has_article_4", has_article_4),
          KV("article_4_restrictions", Restrictions(properties, has_article_4)),
          KV("article_4_date", article_4_date),
          KV("data_source", GetD(properties, "data_source", PyStr(T_london_datastore))) >>))

\* The body of transform_ca_record inside its try.
CaTryBody(feature) ==
    LET properties == GetD(feature, "properties", PyDict(<<>>))
        geometry == Get(feature, "geometry")
        validated_geom == validate_geometry(geometry)
        ensured == EnsureStep(validated_geom)
        borough == CaBorough(properties)
        target == is_target_borough(borough)
    IN IF IsExc(properties) THEN properties
       ELSE IF ~Truthy(geometry)
            THEN (IF properties.k = "dict" THEN PyNone ELSE Exc("AttributeError"))
       ELSE IF ~Truthy(validated_geom) THEN PyNone
       ELSE IF ensured = PyNone THEN PyNone
       ELSE IF IsExc(borough) THEN borough
       ELSE IF IsExc(target) THEN target
       ELSE IF ~Truthy(target) THEN PyNone
       ELSE CaRecord(properties, ensured, borough)

transform_ca_record(feature) == CatchAll(CaTryBody(feature))

----------------------------------------------------------------------------
(* validate_and_resolve_filepath, safe_read_json_file and the source readers *)

\* A path is text whose symbols are its directory, its stem and its suffix.
\* What the file system and the environment hold is read when the code reads
\* it: fs says whether the path exists and is a regular file, allowed_data_dir
\* is DATA_INGESTION_ALLOWED_DIR (None, or the text of a directory).
allowed_extensions == {<<".", "j", "s", "o", "n">>, <<".", "g", "e", "o", "j", "s", "o", "n">>}
sensitive_patterns ==
    {"/etc/", "/var/", "/usr/", "/root/", "\\windows\\", "\\system32\\", "\\program files\\"}

PathSuffix(path) == path.s[Len(path.s)]
SuffixText(sym) ==
    CASE sym = ".json" -> <<".", "j", "s", "o", "n">>
      [] sym = ".JSON" -> <<".", "J", "S", "O", "N">>
      [] sym = ".geojson" -> <<".", "g", "e", "o", "j", "s", "o", "n">>
      [] sym = ".csv" -> <<".", "c", "s", "v">>
      [] OTHER -> <<>>

\* A variant without the test for sensitive directories.
ValidateAnywhere(filepath, fs, allowed_data_dir) ==
    IF Lower(SuffixText(PathSuffix(filepath))) \notin allowed_extensions THEN Exc("ValueError")
    ELSE IF ~fs.exists THEN Exc("ValueError")
    ELSE IF ~fs.is_file THEN Exc("ValueError")
    ELSE IF Truthy(allowed_data_dir) /\ filepath.s[1] # allowed_data_dir.s[1]
         THEN Exc("ValueError")
    ELSE filepath

\* validate_and_resolve_filepath(filepath): the resolved path, or ValueError
validate_and_resolve_filepath(filepath, fs, allowed_data_dir) ==
    IF Lower(SuffixText(PathSuffix(filepath))) \notin allowed_extensions THEN Exc("ValueError")
    ELSE IF ~fs.exists THEN Exc("ValueError")
    ELSE IF ~fs.is_file THEN Exc("ValueError")
    ELSE IF \E p \in 1..Len(filepath.s) : filepath.s[p] \in sensitive_patterns
         THEN Exc("ValueError")
    ELSE IF Truthy(allowed_data_dir) /\ filepath.s[1] # allowed_data_dir.s[1]
         THEN Exc("ValueError")
    ELSE filepath

\* safe_read_json_file(filepath): content is what open() and json.load() give
\* for the validated path, the parsed data or the exception of an unreadable
\* file or of text that is no JSON; it is not read for a path that fails.
safe_read_json_file(filepath, fs, allowed_data_dir, content) ==
    LET validated_path == validate_and_resolve_filepath(filepath, fs, allowed_data_dir)
    IN IF IsExc(validated_path) THEN validated_path ELSE content

\* with open(str(validated_path)): the file is opened once the path has been
\* validated. The log keeps the path with the file system and the allowed
\* directory the validation saw, and whether open() was reached.
Open(log, filepath, fs, allowed_data_dir) ==
    Append(log, [path |-> filepath, fs |-> fs, allowed_data_dir |-> allowed_data_dir,
                 opened |-> ~IsExc(validate_and_resolve_filepath(filepath, fs,
                                                                 allowed_data_dir))])

\* 'features' in data: a bool, or TypeError for data that is no container
InData(data) ==
    CASE data.k = "dict" -> PyBool(HasKey(data, "features"))
      [] data.k = "list" -> PyBool(FALSE)
      [] data.k = "str" -> PyBool(FALSE)
      [] OTHER -> Exc("TypeError")

\* fetch_listed_buildings_from_file(filepath)
fetch_listed_buildings_from_file(filepath, fs, allowed_data_dir, content) ==
    LET data == safe_read_json_file(filepath, fs, allowed_data_dir, content)
        has == InData(data)
    IN IF IsExc(data) THEN data
       ELSE IF IsExc(has) THEN has
       ELSE IF Truthy(has) THEN Item(data, "features")
       ELSE IF data.k = "list" THEN data
       ELSE Exc("ValueError")

\* fetch_listed_buildings_from_api(borough): the placeholder returns no records
fetch_listed_buildings_from_api(borough) == PyList(<<>>)

\* fetch_conservation_areas_from_file(filepath)
fetch_conservation_areas_from_file(filepath, fs, allowed_data_dir, content) ==
    LET data == safe_read_json_file(filepath, fs, allowed_data_dir, content)
        has == InData(data)
    IN IF IsExc(data) THEN data
       ELSE IF IsExc(has) THEN has
       ELSE IF ~Truthy(has) THEN Exc("ValueError")
       ELSE Item(data, "features")

\* The body of fetch_conservation_areas_from_url inside its try: response is
\* the parsed body, or the exception of the transport, of raise_for_status or
\* of response.json().
UrlTryBody(response) ==
    LET has == InData(response)
    IN IF IsExc(response) THEN response
       ELSE IF IsExc(has) THEN has
       ELSE IF Truthy(has) THEN Item(response, "features")
       ELSE PyList(<<>>)

\* except Exception: log and return []
CatchEmpty(v) == IF IsExc(v) THEN PyList(<<>>) ELSE v

fetch_conservation_areas_from_url(response) == CatchEmpty(UrlTryBody(response))

\* BOROUGH_DATA_URLS, by borough name in the order of the dict
BOROUGH_DATA_URLS == <<T_Camden, T_Barnet>>

\* if borough and borough.lower() != borough_name.lower(): continue
SkipsUrl(borough, borough_name) ==
    Truthy(borough) /\ Lower(borough.s) # Lower(borough_name)

\* features.extend(more): the longer list, or TypeError when more cannot be
\* iterated
Extend(features, more) ==
    CASE more.k = "list" -> PyList(features.items \o more.items)
      [] more.k = "str" -> PyList(features.items \o [p \in 1..Len(more.s) |-> PyStr(<<more.s[p]>>)])
      [] more.k = "dict" ->
            PyList(features.items \o [p \in 1..Len(more.items) |-> PyStr(more.items[p].s)])
      [] OTHER -> Exc("TypeError")

\* The items a for loop over v visits, for a v that has passed len(v).
IterItems(v) ==
    CASE v.k = "list" -> v.items
      [] v.k = "str" -> [p \in 1..Len(v.s) |-> PyStr(<<v.s[p]>>)]
      [] v.k = "dict" -> [p \in 1..Len(v.items) |-> PyStr(v.items[p].s)]
      [] OTHER -> <<>>

\* len(v) is defined
HasLen(v) == v.k \in {"list", "str", "dict"}

----------------------------------------------------------------------------
(* The persistence calls and the stored procedures they run *)

\* float(record['location'].split()[n].replace(sym, ''))
LocationPart(record, n, sym) ==
    LET parts == Split(Item(record, "location").s)
    IN IF Len(parts) < n THEN Exc("IndexError")
       ELSE Float(PyStr(Remove(parts[n], sym)))

\* The parameters of the insert_listed_building call, or the exception raised
\* while the dict is built.
HeParams(record) ==
    LET p_lng == LocationPart(record, 1, "POINT(")
        p_lat == LocationPart(record, 2, ")")
    IN FirstExc(<<p_lng, p_lat>>,
        PyDict(<<
          KV("p_list_entry_number", Item(record, "list_entry_number")),
          KV("p_name", Item(record, "name")),
          KV("p_grade", Item(record, "grade")),
          KV("p_address_line_1", Item(record, "address_line_1")),
          KV("p_address_line_2", Item(record, "address_line_2")),
          KV("p_town", Item(record, "town")),
          KV("p_postcode", Item(record, "postcode")),
          KV("p_borough", Item(record, "borough")),
          KV("p_lng", p_lng),
          KV("p_lat", p_lat),
          KV("p_list_date", Item(record, "list_date")),
          KV("p_amended_date", Item(record, "amended_date")),
          KV("p_legacy_uid", Item(record, "legacy_uid")),
          KV("p_documentation_url", Item(record, "documentation_url")) >>))

\* The parameters of the insert_conservation_area call.
CaParams(record) ==
    PyDict(<<
      KV("p_name", Item(record, "name")),
      KV("p_reference", Item(record, "reference")),
      KV("p_borough", Item(record, "borough")),
      KV("p_designation_date", Item(record, "designation_date")),
      KV("p_boundary_wkt", Item(record, "boundary_wkt")),
      KV("p_area_hectares", Item(record, "area_hectares")),
      KV("p_description", Item(record, "description")),
      KV("p_character_appraisal_url", Item(record, "character_appraisal_url")),
      KV("p_management_plan_url", Item(record, "management_plan_url")),
      KV("p_has_article_4", Item(record, "has_article_4")),
      KV("p_article_4_restrictions", Item(record, "article_4_restrictions")),
      KV("p_article_4_date", Item(record, "article_4_date")),
      KV("p_data_source", Item(record, "data_source")) >>)

\* A row with the named columns taken from another row (DO UPDATE SET).
SetColumns(row, excluded, columns) ==
    PyDict([p \in 1..Len(row.items) |->
        IF row.items[p].s[1] \in columns
        THEN KV(row.items[p].s[1], Item(excluded, row.items[p].s[1]))
        ELSE row.items[p]])

\* updated_at = NOW(): the column is set, or added to a row that was written
\* by the INSERT, which leaves it to the table's default.
Touch(row, t) ==
    IF HasKey(row, "updated_at")
    THEN PyDict([q \in 1..Len(row.items) |->
                    IF row.items[q].s[1] = "updated_at" THEN KV("updated_at", PyNum(t))
                    ELSE row.items[q]])
    ELSE PyDict(Append(row.items, KV("updated_at", PyNum(t))))

\* The row insert_listed_building proposes (EXCLUDED).
HeRow(p) ==
    PyDict(<<
      KV("list_entry_number", Item(p, "p_list_entry_number")),
      KV("name", Item(p, "p_name")),
      KV("grade", Item(p, "p_grade")),
      KV("address_line_1", Item(p, "p_address_line_1")),
      KV("address_line_2", Item(p, "p_address_line_2")),
      KV("town", Item(p, "p_town")),
      KV("postcode", Item(p, "p_postcode")),
      KV("borough", Item(p, "p_borough")),
      KV("location", PyList(<<Item(p, "p_lng"), Item(p, "p_lat")>>)),
      KV("list_date", Item(p, "p_list_date")),
      KV("amended_date", Item(p, "p_amended_date")),
      KV("legacy_uid", Item(p, "p_legacy_uid")),
      KV("documentation_url", Item(p, "p_documentation_url")) >>)

HeUpdatedColumns ==
    {"name", "grade", "address_line_1", "address_line_2", "town", "postcode", "borough",
     "location", "amended_date", "documentation_url"}

\* ON CONFLICT (list_entry_number): the rows the proposed row collides with
HeConflicts(table, row) ==
    {q \in 1..Len(table) : Item(table[q], "list_entry_number") = Item(row, "list_entry_number")}

\* insert_listed_building(p) run at time t: the table after the call
insert_listed_building(table, p, t) ==
    LET row == HeRow(p)
        hit == HeConflicts(table, row)
    IN IF hit = {} THEN Append(table, row)
       ELSE [q \in 1..Len(table) |->
                IF q \in hit THEN Touch(SetColumns(table[q], row, HeUpdatedColumns), t)
                ELSE table[q]]

\* The row insert_conservation_area proposes (EXCLUDED).
CaRow(p) ==
    PyDict(<<
      KV("name", Item(p, "p_name")),
      KV("reference", Item(p, "p_reference")),
      KV("borough", Item(p, "p_borough")),
      KV("designation_date", Item(p, "p_designation_date")),
      KV("boundary", Item(p, "p_boundary_wkt")),
      KV("area_hectares", Item(p, "p_area_hectares")),
      KV("description", Item(p, "p_description")),
      KV("character_appraisal_url", Item(p, "p_character_appraisal_url")),
      KV("management_plan_url", Item(p, "p_management_plan_url")),
      KV("has_article_4", Item(p, "p_has_article_4")),
      KV("article_4_restrictions", Item(p, "p_article_4_restrictions")),
      KV("article_4_date", Item(p, "p_article_4_date")),
      KV("data_source", Item(p, "p_data_source")) >>)

CaUpdatedColumns ==
    {"name", "designation_date", "boundary", "area_hectares", "description",
     "character_appraisal_url", "management_plan_url", "has_article_4",
     "article_4_restrictions", "article_4_date"}

\* The constraint unique_borough_reference: two rows collide when they agree
\* on borough and on reference; as in any SQL unique constraint a NULL equals
\* nothing, itself included.
unique_borough_reference(a, b) ==
    /\ Item(a, "borough") # PyNone
    /\ Item(a, "reference") # PyNone
    /\ Item(a, "borough") = Item(b, "borough")
    /\ Item(a, "reference") = Item(b, "reference")

\* ON CONFLICT ON CONSTRAINT unique_borough_reference
CaConflicts(table, row) == {q \in 1..Len(table) : unique_borough_reference(table[q], row)}

\* insert_conservation_area(p) run at time t: the table after the call
insert_conservation_area(table, p, t) ==
    LET row == CaRow(p)
        hit == CaConflicts(table, row)
    IN IF hit = {} THEN Append(table, row)
       ELSE [q \in 1..Len(table) |->
                IF q \in hit THEN Touch(SetColumns(table[q], row, CaUpdatedColumns), t)
                ELSE table[q]]

----------------------------------------------------------------------------
(* Bounds and inputs *)

\* Longest list of raw features a source yields.
MaxRecords == 2
\* Most rows a table holds; a call that would add one more fails.
MaxRows == 2
\* Latest time of the datastore clock; a call after it fails.
MaxNow == 3

ListsUpTo(S, n) == UNION {[1..m -> S] : m \in 0..n}

HeFeature(properties, geometry) ==
    PyDict(<<KV("properties", properties), KV("geometry", geometry)>>)

T_date_iso == <<"1", "9", "6", "7", "-", "0", "1", "-", "0", "1">>

\* Listed-building features the sources yield: a Camden building, a flat
\* record whose longitude is text with a leading blank, and a record that is
\* no mapping.
GoodHE ==
    HeFeature(PyDict(<<KV("ListEntry", PyNum(1001)), KV("Name", PyStr(<<"A">>)),
                       KV("Grade", PyStr(<<"2", "*">>)), KV("LocalAuthority", PyStr(T_Camden)),
                       KV("ListDate", PyStr(T_date_iso))>>),
              Geom(T_Point, Pt(-10, 5155)))
PaddedHE ==
    PyDict(<<KV("ListEntry", PyNum(1002)), KV("Longitude", PyStr(<<" ", "-10">>)),
             KV("Latitude", PyStr(<<"5155">>))>>)
SmallHE == {GoodHE, PaddedHE, PyStr(<<"x">>)}

\* Conservation-area features the sources yield: a square in "camden" with a
\* reference, a bow-tie of "LB Camden" without reference, and a feature whose
\* properties are null.
GoodCA ==
    HeFeature(PyDict(<<KV("name", PyStr(<<"H">>)), KV("reference", PyStr(<<"C", "A", "1">>)),
                       KV("borough", PyStr(Lower(T_Camden))), KV("has_article_4", PyBool(TRUE)),
                       KV("article_4_restrictions", PyStr(<<"W", ",", " ", "R">>)),
                       KV("designation_date", PyStr(T_date_iso))>>),
              Geom(T_Polygon, PyList(<<SquareRing>>)))
NoReferenceCA ==
    HeFeature(PyDict(<<KV("CA_NAME", PyStr(<<"K">>)), KV("Borough", PyStr(T_LB \o T_Camden))>>),
              Geom(T_Polygon, PyList(<<BowtieRing>>)))
SmallCA == {GoodCA, NoReferenceCA, HeFeature(PyNone, Geom(T_Polygon, PyList(<<SquareRing>>)))}

FeatureCollection(features) ==
    PyDict(<<KV("type", PyStr(<<"F", "C">>)), KV("features", features)>>)

\* What a file can hold for the reader: it cannot be opened, its text is no
\* JSON, a feature collection, a collection whose features are null, an object
\* without features, a bare array, a bare number.
FileContents(U) ==
    {Exc("OSError"), Exc("JSONDecodeError"), FeatureCollection(PyNone),
     PyDict(<<KV("type", PyStr(<<"F", "C">>))>>), PyNum(1)}
      \cup {FeatureCollection(PyList(fs)) : fs \in ListsUpTo(U, MaxRecords)}
      \cup {PyList(fs) : fs \in ListsUpTo(U, 1)}

\* What a remote endpoint can answer: a transport or HTTP error, an object
\* without features, features that are null, or a feature collection of at
\* most n features.
Responses(U, n) ==
    {Exc("HTTPError"), PyDict(<<KV("type", PyStr(<<"F", "C">>))>>), FeatureCollection(PyNone)}
      \cup {FeatureCollection(PyList(fs)) : fs \in ListsUpTo(U, n)}


\* Wider inputs for the transform functions alone, one feature per file.
T_CAMDEN_TOWN == <<"C", "A", "M", "D", "E", "N", " ", "T", "O", "W", "N">>
T_Hackney == <<"H", "a", "c", "k", "n", "e", "y">>
T_Circle == <<"C", "i", "r", "c", "l", "e">>

\* Longitudes and latitudes on, inside and outside the edges of the box.
LngValues == {min_lng - 1, min_lng, -10, max_lng, max_lng + 1}
LatValues == {min_lat - 1, min_lat, 5155, max_lat, max_lat + 1}

\* The borough a listed-building feature names: none, a target borough, one
\* inside a longer upper-case text, a borough that is no target, a number, an
\* empty first field with a lower-case target in the second.
HeBoroughProps ==
    { <<>>,
      <<KV("LocalAuthority", PyStr(T_Camden))>>,
      <<KV("District", PyStr(T_CAMDEN_TOWN))>>,
      <<KV("Borough", PyStr(T_Hackney))>>,
      <<KV("LocalAuthority", PyNum(5))>>,
      <<KV("LocalAuthority", PyStr(<<>>)), KV("District", PyStr(Lower(T_Brent)))>> }

\* Well-formed point features over the grid of positions and the boroughs.
GridHE ==
    { HeFeature(PyDict(<<KV("ListEntry", PyNum(1001))>> \o b), Geom(T_Point, Pt(x, y))) :
        x \in LngValues, y \in LatValues, b \in HeBoroughProps }

\* Features of the shapes that cannot give a record: no mapping, null, null
\* properties, a Point of three coordinates, a Point without coordinates,
\* coordinates that are no numbers, a geometry that is text, a date that is
\* no text, no coordinates at all.
MalformedHE ==
    { PyStr(<<"x">>),
      PyNone,
      HeFeature(PyNone, Geom(T_Point, Pt(-10, 5155))),
      HeFeature(PyDict(<<>>), Geom(T_Point, PyList(<<PyNum(-10), PyNum(5155), PyNum(0)>>))),
      HeFeature(PyDict(<<>>), PyDict(<<KV("type", PyStr(T_Point))>>)),
      HeFeature(PyDict(<<>>), Geom(T_Point, PyList(<<PyStr(<<"x">>), PyNum(5155)>>))),
      HeFeature(PyDict(<<>>), Geom(T_Point, PyList(<<PyNone, PyNone>>))),
      HeFeature(PyDict(<<>>), PyStr(<<"x">>)),
      HeFeature(PyDict(<<KV("ListDate", PyNum(5))>>), Geom(T_Point, Pt(-10, 5155))),
      PyDict(<<KV("ListEntry", PyNum(1002))>>) }

\* Flat records with the coordinates among the properties: as text, as text
\* with a leading blank, as text outside the box, a longitude of zero, and a
\* feature whose geometry is no Point.
FlatHE ==
    { PyDict(<<KV("ListEntry", PyNum(1002)), KV("Longitude", PyStr(<<"-10">>)),
               KV("Latitude", PyStr(<<"5155">>))>>),
      PaddedHE,
      PyDict(<<KV("ListEntry", PyNum(1002)), KV("longitude", PyStr(<<"1">>)),
               KV("latitude", PyStr(<<"5155">>))>>),
      PyDict(<<KV("ListEntry", PyNum(1002)), KV("Longitude", PyNum(0)),
               KV("Latitude", PyNum(5155))>>),
      HeFeature(PyDict(<<KV("Easting", PyNum(-10)), KV("Northing", PyNum(5166))>>),
                Geom(T_Polygon, PyList(<<SquareRing>>))) }

\* The grade a listed-building feature names: each token of grade_map as
\* text, 1 and 2 as numbers, a token between blanks, tokens the map does not
\* hold, and a null.
GradeTokens ==
    { PyStr(T_I), PyStr(T_IIstar), PyStr(T_II), PyStr(<<"2", "*">>), PyStr(<<"2">>),
      PyStr(<<"1">>), PyNum(1), PyNum(2), PyStr(<<" ", "I", " ">>), PyStr(<<"I", "I", "I">>),
      PyStr(<<"i">>), PyStr(<<"i", "i", "*">>), PyNone }

\* Point features inside the box that name a grade under either key, and one
\* whose first key is empty.
GradeHE ==
    { HeFeature(PyDict(<<KV("ListEntry", PyNum(1001)), KV(key, tok)>>),
                Geom(T_Point, Pt(-10, 5155))) :
        key \in {"Grade", "grade"}, tok \in GradeTokens }
      \cup { HeFeature(PyDict(<<KV("ListEntry", PyNum(1001)), KV("Grade", PyStr(<<>>)),
                                 KV("grade", PyStr(T_I))>>),
                        Geom(T_Point, Pt(-10, 5155))) }

\* The list entry a feature names: under none of the three keys, under the
\* second alone, under the third alone, a null under the first and a number
\* under the third.
ListEntryProps ==
    { <<>>,
      <<KV("list_entry", PyNum(1002))>>,
      <<KV("ListEntryNumber", PyStr(<<"1003">>))>>,
      <<KV("ListEntry", PyNone), KV("ListEntryNumber", PyNum(1003))>> }

\* Point features inside the box over the ways of naming the list entry.
KeyHE ==
    { HeFeature(PyDict(<<KV("Name", PyStr(<<"A">>))>> \o e), Geom(T_Point, Pt(-10, 5155))) :
        e \in ListEntryProps }

\* Date texts with what datetime.strptime and date.isoformat make of them
\* under the six formats (None where no format parses).
DateTable ==
    << <<PyStr(<<"1", "9", "6", "7", "-", "0", "1", "-", "0", "1">>),
         PyStr(<<"1", "9", "6", "7", "-", "0", "1", "-", "0", "1">>)>>,
       <<PyStr(<<"0", "1", "/", "0", "3", "/", "1", "9", "6", "8">>),
         PyStr(<<"1", "9", "6", "8", "-", "0", "3", "-", "0", "1">>)>>,
       <<PyStr(<<"n", "o", "t", " ", "a", " ", "d", "a", "t", "e">>),
         PyNone>>,
       <<PyStr(<<"0", "1", "-", "0", "3", "-", "1", "9", "6", "8">>),
         PyStr(<<"1", "9", "6", "8", "-", "0", "3", "-", "0", "1">>)>>,
       <<PyStr(<<"1", "9", "6", "8", "/", "0", "3", "/", "0", "1">>),
         PyStr(<<"1", "9", "6", "8", "-", "0", "3", "-", "0", "1">>)>>,
       <<PyStr(<<"1", " ", "M", "a", "r", "c", "h", " ", "1", "9", "6", "8">>),
         PyStr(<<"1", "9", "6", "8", "-", "0", "3", "-", "0", "1">>)>>,
       <<PyStr(<<"1", " ", " ", "m", "a", "r", "c", "h", " ", "1", "9", "6", "8">>),
         PyStr(<<"1", "9", "6", "8", "-", "0", "3", "-", "0", "1">>)>>,
       <<PyStr(<<"M", "a", "r", "c", "h", " ", "5", ",", " ", "1", "9", "6", "8">>),
         PyStr(<<"1", "9", "6", "8", "-", "0", "3", "-", "0", "5">>)>>,
       <<PyStr(<<"M", "a", "r", "c", "h", " ", "5", ",", "1", "9", "6", "8">>),
         PyNone>>,
       <<PyStr(<<" ", "1", "9", "6", "7", "-", "0", "1", "-", "0", "1", " ">>),
         PyStr(<<"1", "9", "6", "7", "-", "0", "1", "-", "0", "1">>)>>,
       <<PyStr(<<"2", "0", "2", "0", "-", "1", "-", "5">>),
         PyStr(<<"2", "0", "2", "0", "-", "0", "1", "-", "0", "5">>)>>,
       <<PyStr(<<"2", "0", "2", "0", "-", "0", "1", "-", " ", "5">>),
         PyStr(<<"2", "0", "2", "0", "-", "0", "1", "-", "0", "5">>)>>,
       <<PyStr(<<"2", "0", "2", "0", "/", " ", "1", "/", " ", "5">>),
         PyNone>>,
       <<PyStr(<<"0", "9", "9", "9", "-", "0", "1", "-", "0", "1">>),
         PyStr(<<"0", "9", "9", "9", "-", "0", "1", "-", "0", "1">>)>>,
       <<PyStr(<<"9", "9", "9", "-", "0", "1", "-", "0", "1">>),
         PyNone>>,
       <<PyStr(<<"0", "0", "0", "0", "-", "0", "1", "-", "0", "1">>),
         PyNone>>,
       <<PyStr(<<"2", "9", "/", "0", "2", "/", "1", "9", "0", "0">>),
         PyNone>>,
       <<PyStr(<<"2", "9", "/", "0", "2", "/", "2", "0", "0", "0">>),
         PyStr(<<"2", "0", "0", "0", "-", "0", "2", "-", "2", "9">>)>>,
       <<PyStr(<<"3", "1", "-", "0", "4", "-", "2", "0", "0", "0">>),
         PyNone>>,
       <<PyStr(<<"2", "0", "2", "0", "0", "1", "0", "5">>),
         PyNone>>,
       <<PyStr(<<"2", "0", "2", "0", "-", "0", "1", "-", "0", "5", "x">>),
         PyNone>>,
       <<PyStr(<<"2", "0", "2", "0", "-", "1", "3", "-", "0", "1">>),
         PyNone>>,
       <<PyStr(<<"2", "0", "2", "0", "-", "0", "1", "-", "3", "2">>),
         PyNone>>,
       <<PyStr(<<"1", "2", "/", "3", "1", "/", "1", "9", "9", "9">>),
         PyNone>> >>

\* The date a feature names: each text of the table, an empty text, a null,
\* a number.
DateValues ==
    {DateTable[p][1] : p \in 1..Len(DateTable)} \cup {PyStr(<<>>), PyNone, PyNum(5)}

\* Point features inside the box over the dates, and one that names no date.
DateHE ==
    { HeFeature(PyDict(<<KV("ListEntry", PyNum(1001)), KV("ListDate", d)>>),
                Geom(T_Point, Pt(-10, 5155))) : d \in DateValues }
      \cup { HeFeature(PyDict(<<KV("ListEntry", PyNum(1001))>>), Geom(T_Point, Pt(-10, 5155))) }

WideHE == GridHE \cup MalformedHE \cup FlatHE \cup GradeHE \cup KeyHE \cup DateHE

\* The borough a conservation-area feature names.
CaBoroughProps ==
    { <<>>,
      <<KV("borough", PyStr(Lower(T_Camden)))>>,
      <<KV("Borough", PyStr(T_LB \o T_Camden))>>,
      <<KV("LOCAL_AUTHORITY", PyStr(T_Hackney))>>,
      <<KV("LocalAuthority", PyNum(5))>> }

\* Geometries that validate to a Polygon, to a MultiPolygon, or to another type.
PolygonLike ==
    { Geom(T_Polygon, PyList(<<SquareRing>>)),
      Geom(T_Polygon, PyList(<<OpenSquareRing>>)),
      Geom(Lower(T_Polygon), PyList(<<SquareRing>>)),
      Geom(T_MultiPolygon, PyList(<<PyList(<<SquareRing>>), PyList(<<SquareRing>>)>>)) }
MultiPolygonLike ==
    { Geom(T_MultiPolygon, PyList(<<PyList(<<SquareRing>>)>>)),
      Geom(T_MultiPolygon, PyList(<<PyList(<<SquareRing>>), PyList(<<FarSquareRing>>)>>)),
      Geom(T_Polygon, PyList(<<BowtieRing>>)) }
OtherTyped ==
    { Geom(T_Point, Pt(0, 0)),
      Geom(T_LineString, PyList(<<Pt(0, 0), Pt(2, 2)>>)),
      Geom(T_Polygon, PyList(<<CollinearRing>>)),
      Geom(T_Polygon, PyList(<<SpikeRing>>)) }

GridCA ==
    { HeFeature(PyDict(<<KV("name", PyStr(<<"H">>))>> \o b), g) :
        b \in CaBoroughProps, g \in PolygonLike \cup MultiPolygonLike \cup OtherTyped }

\* Features of the shapes that cannot give a record: no mapping, null, null
\* properties, no geometry, a null geometry, empty coordinates, coordinates
\* that are text, an unknown type, a geometry that is text, a date that is no
\* text.
MalformedCA ==
    { PyStr(<<"x">>),
      PyNone,
      HeFeature(PyNone, Geom(T_Polygon, PyList(<<SquareRing>>))),
      PyDict(<<KV("properties", PyDict(<<KV("borough", PyStr(T_Camden))>>))>>),
      HeFeature(PyDict(<<KV("borough", PyStr(T_Camden))>>), PyNone),
      HeFeature(PyDict(<<KV("borough", PyStr(T_Camden))>>), Geom(T_Polygon, PyList(<<>>))),
      HeFeature(PyDict(<<KV("borough", PyStr(T_Camden))>>), Geom(T_Polygon, PyStr(<<"x">>))),
      HeFeature(PyDict(<<KV("borough", PyStr(T_Camden))>>), Geom(T_Circle, Pt(0, 0))),
      HeFeature(PyDict(<<KV("borough", PyStr(T_Camden))>>), PyStr(<<"x">>)),
      HeFeature(PyDict(<<KV("borough", PyStr(T_Camden)), KV("designation_date", PyNum(5))>>),
                Geom(T_Polygon, PyList(<<SquareRing>>))) }

T_Article_4_applies ==
    <<"A", "r", "t", "i", "c", "l", "e", " ", "4", " ", "a", "p", "p", "l", "i", "e", "s">>

\* What a feature says about Article 4: nothing, true or false under one of
\* the three keys, a null, text or a number under one of them, the words in a
\* description (in either case), a description without them.
Article4Props ==
    { <<>>,
      <<KV("has_article_4", PyBool(TRUE))>>,
      <<KV("has_article_4", PyBool(FALSE))>>,
      <<KV("has_article_4", PyBool(FALSE)), KV("ARTICLE_4", PyBool(TRUE))>>,
      <<KV("article4", PyBool(TRUE))>>,
      <<KV("has_article_4", PyNone)>>,
      <<KV("has_article_4", PyStr(<<"N", "o">>))>>,
      <<KV("ARTICLE_4", PyNum(1))>>,
      <<KV("description", PyStr(T_Article_4_applies))>>,
      <<KV("DESCRIPTION", PyStr([p \in 1..9 |-> UpperChar(T_Article_4_applies[p])]))>>,
      <<KV("description", PyStr(<<"a", "r", "t", "i", "c", "l", "e", "4">>))>> }

\* The restrictions a feature names: none, comma-separated text with and
\* without blanks around the items, a list, a number.
RestrictionProps ==
    { <<>>,
      <<KV("article_4_restrictions", PyStr(<<"W", ",", " ", "R">>))>>,
      <<KV("A4_RESTRICTIONS", PyStr(<<" ", "W", " ", ",", "R", ",", "S", " ">>))>>,
      <<KV("article_4_restrictions", PyStr(<<"W">>))>>,
      <<KV("article_4_restrictions", PyList(<<PyStr(<<"R">>), PyStr(<<" ", "W">>)>>))>>,
      <<KV("article_4_restrictions", PyNum(5))>> }

\* Valid polygons of Camden over what they say about Article 4.
Article4CA ==
    { HeFeature(PyDict(<<KV("name", PyStr(<<"H">>)), KV("borough", PyStr(T_Camden))>> \o a \o r),
                Geom(T_Polygon, PyList(<<SquareRing>>))) :
        a \in Article4Props, r \in RestrictionProps }

WideCA == GridCA \cup MalformedCA \cup Article4CA

\* Files of one feature, and files of a feature of U followed by g.
SingleFiles(U) == {FeatureCollection(PyList(<<f>>)) : f \in U}
PairFiles(U, g) == {FeatureCollection(PyList(<<f, g>>)) : f \in U}

P_good == PyStr(<<"/data/", "in", ".geojson">>)
P_csv == PyStr(<<"/data/", "in", ".csv">>)
P_etc == PyStr(<<"/etc/", "in", ".json">>)
Paths == {P_good, P_csv, P_etc}

FsStates == {[exists |-> TRUE, is_file |-> TRUE], [exists |-> TRUE, is_file |-> FALSE],
             [exists |-> FALSE, is_file |-> FALSE]}
AllowedDirs == {PyNone, PyStr(<<"/data/">>), PyStr(<<"/srv/">>)}

\* The calls explored: ingest_listed_buildings(source, filepath, borough, dry_run)
\* and ingest_conservation_areas(filepath, borough, dry_run).
LbCalls ==
    [source : {"file"}, filepath : {PyNone, PyStr(<<>>)} \cup Paths, borough : {PyNone},
     dry_run : BOOLEAN]
      \cup [source : {"api"}, filepath : {P_good}, borough : {PyNone}, dry_run : BOOLEAN]
CaCalls ==
    [source : {"file"}, filepath : Paths, borough : {PyNone}, dry_run : BOOLEAN]
      \cup [source : {"file"}, filepath : {PyNone, PyStr(<<>>)},
             borough : {PyNone, PyStr(Lower(T_Camden)), PyStr(T_Haringey)}, dry_run : BOOLEAN]

\* The same building and the same area as sent at a later date, with changed
\* values: another name, grade and listing date; another name and data source.
T_date_later == <<"1", "9", "6", "8", "-", "0", "1", "-", "0", "1">>
ChangedHE ==
    HeFeature(PyDict(<<KV("ListEntry", PyNum(1001)), KV("Name", PyStr(<<"B">>)),
                       KV("Grade", PyStr(<<"2">>)), KV("LocalAuthority", PyStr(T_Camden)),
                       KV("ListDate", PyStr(T_date_later))>>),
              Geom(T_Point, Pt(-10, 5155)))
ChangedCA ==
    HeFeature(PyDict(<<KV("name", PyStr(<<"J">>)), KV("reference", PyStr(<<"C", "A", "1">>)),
                       KV("borough", PyStr(Lower(T_Camden))),
                       KV("data_source", PyStr(<<"x">>)),
                       KV("designation_date", PyStr(T_date_iso))>>),
              Geom(T_Polygon, PyList(<<SquareRing>>)))
AgainHE == {GoodHE, ChangedHE}
AgainCA == {GoodCA, ChangedCA}

\* Runs over a readable file with or without a borough filter.
AgainCalls ==
    IF pipeline = "lb"
    THEN [source : {"file"}, filepath : {P_good}, borough : {PyNone, PyStr(T_Barnet)},
          dry_run : BOOLEAN]
    ELSE [source : {"file"}, filepath : {P_good}, borough : {PyNone, PyStr(T_Haringey)},
          dry_run : BOOLEAN]

\* The dry runs over a readable file.
DryFileCalls(C) == {a \in C : a.dry_run /\ a.source = "file" /\ a.filepath = P_good}

----------------------------------------------------------------------------
(* The two ingest functions *)

NoTracker == [total |-> 0, processed |-> 0, success |-> 0, failed |-> 0, skipped |-> 0]

\* ProgressTracker(total, name)
ProgressTracker(total) == [NoTracker EXCEPT !.total = total]

\* ProgressTracker.increment(success, skipped)
increment(t, success, skipped) ==
    LET t1 == [t EXCEPT !.processed = @ + 1]
    IN IF skipped THEN [t1 EXCEPT !.skipped = @ + 1]
       ELSE IF success THEN [t1 EXCEPT !.success = @ + 1]
       ELSE [t1 EXCEPT !.failed = @ + 1]

\* The dict returned when there is nothing to process.
EmptySummary ==
    PyDict(<<KV("total", PyNum(0)), KV("inserted", PyNum(0)), KV("skipped", PyNum(0)),
             KV("failed", PyNum(0))>>)

\* The dict returned after the transform loop.
Summary(total, n_transformed, n_inserted, n_skipped, n_failed) ==
    PyDict(<<KV("total", PyNum(total)), KV("transformed", PyNum(n_transformed)),
             KV("inserted", PyNum(n_inserted)), KV("skipped", PyNum(n_skipped)),
             KV("failed", PyNum(n_failed))>>)

\* batch_insert has not been called.
NoFrame == [pc |-> "idle", records |-> <<>>, batch_size |-> 1, i |-> 0, batch |-> <<>>,
            record |-> 0, total |-> 0, upserts |-> <<>>, result |-> PyNone]

\* One of the two scripts, nothing run yet, the tables empty.
Init ==
    /\ pc = "idle"
    /\ pipeline \in {"lb", "ca"}
    /\ args = [source |-> "file", filepath |-> PyNone, borough |-> PyNone, dry_run |-> FALSE]
    /\ records = PyList(<<>>)
    /\ url_i = 1
    /\ fetched = <<>>
    /\ i = 0
    /\ transformed = <<>>
    /\ tracker = NoTracker
    /\ client = FALSE
    /\ j = 0
    /\ inserted = 0
    /\ failed = 0
    /\ calls = <<>>
    /\ result = PyNone
    /\ listed_buildings = <<>>
    /\ conservation_areas = <<>>
    /\ now = 0
    /\ opened = <<>>
    /\ frame = NoFrame
    /\ target_table = {}

\* A call of one of the two functions begins (the datastore keeps its rows).
Enter(a) ==
    /\ pc \in {"idle", "done", "raised"}
    /\ pc' = "fetch"
    /\ args' = a
    /\ records' = PyList(<<>>)
    /\ url_i' = 1
    /\ fetched' = <<>>
    /\ i' = 0
    /\ transformed' = <<>>
    /\ tracker' = NoTracker
    /\ client' = FALSE
    /\ j' = 0
    /\ inserted' = 0
    /\ failed' = 0
    /\ calls' = <<>>
    /\ result' = PyNone
    /\ opened' = <<>>
    /\ UNCHANGED batch_vars
    /\ UNCHANGED <<pipeline, listed_buildings, conservation_areas, now>>

\* The calls of the script that is run.
Calls == IF pipeline = "lb" THEN LbCalls ELSE CaCalls

Start(C) == \E a \in C : Enter(a)

\* From the source reader's result to the transform loop: an exception leaves
\* the function, no records return the short summary, len() of something
\* without a length raises.
AfterFetch(r) ==
    /\ IF IsExc(r) THEN pc' = "raised" /\ result' = r /\ UNCHANGED <<records, tracker>>
       ELSE IF ~Truthy(r) THEN pc' = "done" /\ result' = EmptySummary /\ records' = r
                               /\ UNCHANGED tracker
       ELSE IF ~HasLen(r) THEN pc' = "raised" /\ result' = Exc("TypeError") /\ records' = r
                               /\ UNCHANGED tracker
       ELSE /\ pc' = "transform"
            /\ records' = r
            /\ tracker' = ProgressTracker(Len(IterItems(r)))
            /\ UNCHANGED result
    /\ UNCHANGED batch_vars
    /\ UNCHANGED <<pipeline, args, i, transformed, client, j, inserted, failed, calls,
                   listed_buildings, conservation_areas, now>>

\* ingest_listed_buildings: source == 'file' and filepath
FetchListedFile(contents) ==
    /\ pc = "fetch" /\ pipeline = "lb"
    /\ args.source = "file" /\ Truthy(args.filepath)
    /\ \E fs \in FsStates, dir \in AllowedDirs, content \in contents :
          /\ AfterFetch(fetch_listed_buildings_from_file(args.filepath, fs, dir, content))
          /\ opened' = Open(opened, args.filepath, fs, dir)
    /\ UNCHANGED <<url_i, fetched>>

\* ingest_listed_buildings: any other source
FetchListedApi ==
    /\ pc = "fetch" /\ pipeline = "lb"
    /\ ~(args.source = "file" /\ Truthy(args.filepath))
    /\ AfterFetch(fetch_listed_buildings_from_api(args.borough))
    /\ UNCHANGED <<url_i, fetched, opened>>

\* ingest_conservation_areas: if filepath
FetchCaFile(contents) ==
    /\ pc = "fetch" /\ pipeline = "ca"
    /\ Truthy(args.filepath)
    /\ \E fs \in FsStates, dir \in AllowedDirs, content \in contents :
          /\ AfterFetch(fetch_conservation_areas_from_file(args.filepath, fs, dir, content))
          /\ opened' = Open(opened, args.filepath, fs, dir)
    /\ UNCHANGED <<url_i, fetched>>

\* ingest_conservation_areas: one turn of the loop over BOROUGH_DATA_URLS
\* (each endpoint answers with at most one feature)
FetchCaUrl(U) ==
    /\ pc = "fetch" /\ pipeline = "ca"
    /\ ~Truthy(args.filepath)
    /\ url_i <= Len(BOROUGH_DATA_URLS)
    /\ url_i' = url_i + 1
    /\ UNCHANGED opened
    /\ \E response \in Responses(U, 1) :
          LET skip == SkipsUrl(args.borough, BOROUGH_DATA_URLS[url_i])
              got == fetch_conservation_areas_from_url(response)
              features == IF skip THEN records ELSE Extend(records, got)
          IN /\ skip => response = Exc("HTTPError")
             /\ fetched' = IF skip THEN fetched
                            ELSE Append(fetched, [url |-> url_i, response |-> response])
             /\ IF IsExc(features) \/ url_i = Len(BOROUGH_DATA_URLS)
                THEN AfterFetch(features)
                ELSE /\ records' = features
                     /\ UNCHANGED batch_vars
                     /\ UNCHANGED <<pc, pipeline, args, i, transformed, tracker, client, j,
                                     inserted, failed, calls, result, listed_buildings,
                                     conservation_areas, now>>

\* The transform function of the running pipeline.
Transform(record) ==
    IF pipeline = "lb" THEN transform_he_record(record) ELSE transform_ca_record(record)

\* if result: the record is kept
Keeps(out) == Truthy(out)

\* One turn of the transform loop.
TransformStep ==
    /\ pc = "transform"
    /\ \E out \in {Transform(IterItems(records)[i + 1])} :
          IF IsExc(out)
          THEN /\ pc' = "raised" /\ result' = out
               /\ UNCHANGED <<transformed, tracker, i>>
          ELSE /\ transformed' = IF Keeps(out) THEN Append(transformed, out) ELSE transformed
               /\ tracker' = IF Keeps(out) THEN increment(tracker, TRUE, FALSE)
                              ELSE increment(tracker, TRUE, TRUE)
               /\ i' = i + 1
               /\ pc' = IF i + 1 = Len(IterItems(records)) THEN "branch" ELSE "transform"
               /\ UNCHANGED result
    /\ UNCHANGED batch_vars
    /\ UNCHANGED <<pipeline, args, records, url_i, fetched, client, j, inserted, failed,
                   calls, listed_buildings, conservation_areas, now, opened>>

\* A variant that never takes the dry-run exit.
NeverDry(a) == FALSE

\* if dry_run
IsDryRun(a) == a.dry_run

\* The dry-run exit.
DryRunReturn ==
    /\ pc = "branch"
    /\ IsDryRun(args)
    /\ pc' = "done"
    /\ result' = Summary(Len(IterItems(records)), Len(transformed), 0, tracker.skipped, 0)
    /\ UNCHANGED batch_vars
    /\ UNCHANGED <<pipeline, args, records, url_i, fetched, i, transformed, tracker, client,
                   j, inserted, failed, calls, listed_buildings, conservation_areas, now,
                   opened>>

\* get_supabase_client(): the client, or ValueError when a variable is missing
get_supabase_client(supabase_url, supabase_key) ==
    IF ~supabase_url \/ ~supabase_key THEN Exc("ValueError") ELSE PyBool(TRUE)

\* client = get_supabase_client(), with the environment as it is then
GetClient ==
    /\ pc = "branch"
    /\ ~IsDryRun(args)
    /\ \E supabase_url \in BOOLEAN, supabase_key \in BOOLEAN :
          LET c == get_supabase_client(supabase_url, supabase_key)
          IN IF IsExc(c)
             THEN pc' = "raised" /\ result' = c /\ UNCHANGED client
             ELSE pc' = "insert" /\ client' = TRUE /\ UNCHANGED result
    /\ UNCHANGED batch_vars
    /\ UNCHANGED <<pipeline, args, records, url_i, fetched, i, transformed, tracker, j,
                   inserted, failed, calls, listed_buildings, conservation_areas, now,
                   opened>>

\* The parameters of the call for a canonical record, or the exception raised
\* before the call is made.
Params(record) == IF pipeline = "lb" THEN HeParams(record) ELSE CaParams(record)

\* One turn of the insert loop in which building the parameters raises: the
\* except clause counts a failure and no call is made.
InsertNoCall ==
    /\ pc = "insert"
    /\ j < Len(transformed)
    /\ IsExc(Params(transformed[j + 1]))
    /\ failed' = failed + 1
    /\ j' = j + 1
    /\ UNCHANGED batch_vars
    /\ UNCHANGED <<pc, pipeline, args, records, url_i, fetched, i, transformed, tracker,
                   client, inserted, calls, result, listed_buildings, conservation_areas,
                   now, opened>>

\* One turn of the insert loop that makes the call: the stored procedure runs
\* at a time later than the last write and the call returns, or the call
\* raises and the table is left as it was.
InsertCall ==
    /\ pc = "insert"
    /\ j < Len(transformed)
    /\ ~IsExc(Params(transformed[j + 1]))
    /\ j' = j + 1
    /\ LET p == Params(transformed[j + 1])
           lb == IF pipeline = "lb" THEN insert_listed_building(listed_buildings, p, now + 1)
                 ELSE listed_buildings
           ca == IF pipeline = "ca" THEN insert_conservation_area(conservation_areas, p, now + 1)
                 ELSE conservation_areas
       IN \/ /\ Len(lb) <= MaxRows /\ Len(ca) <= MaxRows
             /\ now < MaxNow
             /\ listed_buildings' = lb
             /\ conservation_areas' = ca
             /\ now' = now + 1
             /\ inserted' = inserted + 1
             /\ calls' = Append(calls, [params |-> p, raised |-> FALSE])
             /\ UNCHANGED failed
          \/ /\ failed' = failed + 1
             /\ calls' = Append(calls, [params |-> p, raised |-> TRUE])
             /\ UNCHANGED <<inserted, listed_buildings, conservation_areas, now>>
    /\ UNCHANGED batch_vars
    /\ UNCHANGED <<pc, pipeline, args, records, url_i, fetched, i, transformed, tracker,
                   client, result, opened>>

\* The return after the insert loop.
Return ==
    /\ pc = "insert"
    /\ j = Len(transformed)
    /\ pc' = "done"
    /\ result' = Summary(Len(IterItems(records)), Len(transformed), inserted, tracker.skipped,
                          failed)
    /\ UNCHANGED batch_vars
    /\ UNCHANGED <<pipeline, args, records, url_i, fetched, i, transformed, tracker, client,
                   j, inserted, failed, calls, listed_buildings, conservation_areas, now,
                   opened>>

Next ==
    \/ Start(Calls)
    \/ FetchListedFile(FileContents(SmallHE))
    \/ FetchListedApi
    \/ FetchCaFile(FileContents(SmallCA))
    \/ FetchCaUrl(SmallCA)
    \/ TransformStep
    \/ DryRunReturn
    \/ GetClient
    \/ InsertNoCall
    \/ InsertCall
    \/ Return

Spec == Init /\ [][Next]_vars

\* Dry runs over one-feature files (and files of a malformed feature followed
\* by a good one), for the transform functions.
NextWide ==
    \/ Start(DryFileCalls(Calls))
    \/ FetchListedFile(SingleFiles(WideHE) \cup PairFiles(MalformedHE, GoodHE))
    \/ FetchCaFile(SingleFiles(WideCA) \cup PairFiles(MalformedCA, GoodCA))
    \/ TransformStep
    \/ DryRunReturn

SpecWide == Init /\ [][NextWide]_vars

\* Runs over one-feature files that send the same building or area again,
\* with or without a borough filter.
NextAgain ==
    \/ Start(AgainCalls)
    \/ FetchListedFile(SingleFiles(AgainHE))
    \/ FetchCaFile(SingleFiles(AgainCA))
    \/ TransformStep
    \/ DryRunReturn
    \/ GetClient
    \/ InsertCall
    \/ Return

SpecAgain == Init /\ [][NextAgain]_vars

----------------------------------------------------------------------------
(* utils.py: batch_insert *)

\* Longest record list handed to batch_insert, and largest batch size.
MaxBatch == 3
MaxBatchSize == 3

\* The records handed to batch_insert: a list entry number and a name; two
\* of them share a list entry number.
BatchRecords ==
    {[list_entry_number |-> 1, name |-> "A"], [list_entry_number |-> 1, name |-> "B"],
     [list_entry_number |-> 2, name |-> "A"]}
RecordLists == UNION {[1..m -> BatchRecords] : m \in 0..MaxBatch}
BatchSizes == 1..MaxBatchSize

\* A variant whose slices overlap by one record: records[i - 1:i + batch_size]
SliceOverlapping(rs, from, batch_size) ==
    SubSeq(rs, IF from > 0 THEN from ELSE 1,
           IF from + batch_size < Len(rs) THEN from + batch_size ELSE Len(rs))

\* records[i:i + batch_size]
Slice(rs, from, batch_size) ==
    SubSeq(rs, from + 1, IF from + batch_size < Len(rs) THEN from + batch_size ELSE Len(rs))

\* upsert(..., on_conflict='list_entry_number') of one record: the row with
\* the record's list entry number is replaced, or the record is added.
UpsertOne(table, record) ==
    {r \in table : r.list_entry_number # record.list_entry_number} \cup {record}

\* upsert of a list of records, in the order of the list
RECURSIVE UpsertAll(_, _)
UpsertAll(table, batch) ==
    IF batch = <<>> THEN table
    ELSE UpsertAll(UpsertOne(table, Head(batch)), Tail(batch))

\* batch_insert(client, table, records, batch_size) is called: total = 0
BatchEnter(R, B) ==
    /\ frame.pc \in {"idle", "returned"}
    /\ \E rs \in R, batch_size \in B :
          frame' = [NoFrame EXCEPT !.pc = "for", !.records = rs, !.batch_size = batch_size]
    /\ UNCHANGED target_table
    /\ UNCHANGED ingest_vars

\* One turn of the loop over range(0, len(records), batch_size): the upsert of
\* the batch returns and its records are counted, or it raises and the
\* except clause starts the loop over the records of the batch.
UpsertBatch ==
    /\ frame.pc = "for"
    /\ frame.i < Len(frame.records)
    /\ LET batch == Slice(frame.records, frame.i, frame.batch_size)
       IN \/ /\ target_table' = UpsertAll(target_table, batch)
             /\ frame' = [frame EXCEPT
                             !.batch = batch,
                             !.total = frame.total + Len(batch),
                             !.i = frame.i + frame.batch_size,
                             !.upserts = Append(frame.upserts,
                                 [payload |-> batch, many |-> TRUE, raised |-> FALSE])]
          \/ /\ frame' = [frame EXCEPT
                             !.pc = "retry",
                             !.batch = batch,
                             !.record = 0,
                             !.upserts = Append(frame.upserts,
                                 [payload |-> batch, many |-> TRUE, raised |-> TRUE])]
             /\ UNCHANGED target_table
    /\ UNCHANGED ingest_vars

\* One turn of the loop over the records of a failed batch: the upsert of the
\* record returns and it is counted, or it raises and the error is logged.
\* After the last record the outer loop goes on with the next batch.
UpsertRecord ==
    /\ frame.pc = "retry"
    /\ frame.record < Len(frame.batch)
    /\ LET record == frame.batch[frame.record + 1]
           last == frame.record + 1 = Len(frame.batch)
           after == [frame EXCEPT
                       !.record = frame.record + 1,
                       !.pc = IF last THEN "for" ELSE "retry",
                       !.i = IF last THEN frame.i + frame.batch_size ELSE frame.i]
       IN \/ /\ target_table' = UpsertOne(target_table, record)
             /\ frame' = [after EXCEPT
                             !.total = frame.total + 1,
                             !.upserts = Append(frame.upserts,
                                 [payload |-> <<record>>, many |-> FALSE, raised |-> FALSE])]
          \/ /\ frame' = [after EXCEPT
                             !.upserts = Append(frame.upserts,
                                 [payload |-> <<record>>, many |-> FALSE, raised |-> TRUE])]
             /\ UNCHANGED target_table
    /\ UNCHANGED ingest_vars

\* return total
BatchReturn ==
    /\ frame.pc = "for"
    /\ frame.i >= Len(frame.records)
    /\ frame' = [frame EXCEPT !.pc = "returned", !.result = PyNum(frame.total)]
    /\ UNCHANGED target_table
    /\ UNCHANGED ingest_vars

\* A call running.
BatchStep == UpsertBatch \/ UpsertRecord \/ BatchReturn

NextBatch ==
    \/ BatchEnter(RecordLists, BatchSizes)
    \/ UpsertBatch
    \/ UpsertRecord
    \/ BatchReturn

\* batch_insert resolves conflicts on list_entry_number: it serves the
\* listed-buildings script.
InitBatch == Init /\ pipeline = "lb"

\* Calls of batch_insert; a call that has begun runs on to its return.
SpecBatch == InitBatch /\ [][NextBatch]_vars /\ WF_vars(BatchStep)

----------------------------------------------------------------------------
(* Properties *)

\* A run over exactly one raw feature, the transform loop behind it.
OneFeature ==
    /\ pc \in {"branch", "done"}
    /\ i = 1
    /\ HasLen(records)
    /\ Len(IterItems(records)) = 1
RawFeature == IterItems(records)[1]
Emitted == Len(transformed) = 1

\* C1: in a dry run the datastore client is never constructed and no
\* persistence call is made, and the summary the run returns has inserted = 0
\* and failed = 0.
C1_DryRunLeavesDatastoreAlone ==
    args.dry_run =>
        /\ ~client
        /\ calls = <<>>
        /\ pc = "done" =>
              /\ Item(result, "inserted") = PyNum(0)
              /\ Item(result, "failed") = PyNum(0)

\* A dry run has returned after keeping one record and skipping another.
C1_Witness ==
    /\ args.dry_run
    /\ pc = "done"
    /\ Len(transformed) >= 1
    /\ tracker.skipped >= 1

MULTIPOLYGON == [p \in 1..Len(T_MultiPolygon) |-> UpperChar(T_MultiPolygon[p])]
BoundaryTag(record) == SubSeq(Item(record, "boundary_wkt").s, 1, Len(MULTIPOLYGON))
RawGeometry == Get(RawFeature, "geometry")

\* C2: the boundary of every record transform_ca_record returns is a
\* MultiPolygon; a valid Polygon is stored as the MultiPolygon of that one
\* polygon, a valid MultiPolygon as it is, and a geometry that validates to
\* any other type gives no record.
C2_BoundaryIsMultiPolygon ==
    pipeline = "ca" =>
        /\ \A p \in 1..Len(transformed) : BoundaryTag(transformed[p]) = MULTIPOLYGON
        /\ OneFeature =>
              /\ (Emitted /\ RawGeometry = Geom(T_Polygon, PyList(<<SquareRing>>)))
                    => Item(transformed[1], "boundary_wkt")
                         = Wkt(Geom(T_MultiPolygon, PyList(<<PyList(<<SquareRing>>)>>)))
              /\ (Emitted /\ RawGeometry \in MultiPolygonLike /\ IsValid(RawGeometry))
                    => Item(transformed[1], "boundary_wkt") = Wkt(RawGeometry)
              /\ RawGeometry \in OtherTyped => ~Emitted

\* A Polygon feature has been accepted.
C2_Witness ==
    /\ pipeline = "ca"
    /\ OneFeature
    /\ Emitted
    /\ RawGeometry = Geom(T_Polygon, PyList(<<SquareRing>>))

SixBoroughs == {PyStr(TARGET_BOROUGHS[p]) : p \in 1..Len(TARGET_BOROUGHS)}

\* C3: every record handed to persistence has a borough that is one of the
\* six target borough names.
C3_StoredBoroughIsTarget ==
    \A c \in 1..Len(calls) : Item(calls[c].params, "p_borough") \in SixBoroughs

RaisedCalls == {c \in 1..Len(calls) : calls[c].raised}

\* C5: when a run that persists returns, every transformed record has had
\* exactly one persistence call, in input order, failed is the number of
\* calls that raised and inserted the number that did not.
C5_OneCallPerRecord ==
    (pc = "done" /\ client) =>
        /\ Len(calls) = Len(transformed)
        /\ \A c \in 1..Len(calls) :
              Item(calls[c].params, "p_name") = Item(transformed[c], "name")
        /\ Item(result, "failed") = PyNum(Cardinality(RaisedCalls))
        /\ Item(result, "inserted") = PyNum(Len(calls) - Cardinality(RaisedCalls))

\* C6: no run raises a configuration error (ValueError of a missing
\* credential or of an invalid path) after a record has been transformed.
C6_ConfigErrorBeforeTransform ==
    ~(pc = "raised" /\ result = Exc("ValueError") /\ i > 0)

\* The features a remote response carries, none for a failure.
FeaturesOf(response) ==
    IF response.k = "dict" /\ HasKey(response, "features")
          /\ Item(response, "features").k = "list"
    THEN Item(response, "features").items
    ELSE <<>>
RECURSIVE Collected(_)
Collected(log) ==
    IF log = <<>> THEN <<>> ELSE FeaturesOf(Head(log).response) \o Collected(Tail(log))

\* C7: a fetch failure never reaches the caller: no run ends with the
\* exception of an unreadable file or of text that is no JSON, a run over the
\* remote endpoints raises nothing while it fetches, and the features it goes
\* on with are those of the responses that succeeded, in order.
C7_FetchFailureAbsorbed ==
    /\ pc = "raised" => result \notin {Exc("OSError"), Exc("JSONDecodeError")}
    /\ (pipeline = "ca" /\ ~Truthy(args.filepath)) =>
          /\ pc = "raised" => i > 0
          /\ pc \in {"transform", "branch", "insert", "done"}
                => IterItems(records) = Collected(fetched)

\* C8: a turn of the transform loop never raises: it moves on to the next
\* record, and either keeps one record more or counts one more as skipped;
\* a malformed feature is counted as skipped.
C8_TransformNeverRaises ==
    [][pc = "transform" =>
          /\ pc' \in {"transform", "branch"}
          /\ i' = i + 1
          /\ \/ /\ Len(transformed') = Len(transformed) + 1
                /\ tracker'.skipped = tracker.skipped
             \/ /\ transformed' = transformed
                /\ tracker'.skipped = tracker.skipped + 1
          /\ IterItems(records)[i + 1] \in MalformedHE \cup MalformedCA
                => transformed' = transformed]_vars

\* A malformed feature has been skipped and the good one after it kept.
C8_Witness ==
    /\ pc = "branch"
    /\ Len(IterItems(records)) = 2
    /\ IterItems(records)[1] \in MalformedHE \cup MalformedCA
    /\ tracker.skipped = 1
    /\ Len(transformed) = 1

\* The two numbers a location text names, when it names two.
LocationNumbers(record) ==
    LET loc == Item(record, "location").s
    IN IF Len(loc) >= 2 /\ loc[1] = "POINT(" /\ loc[Len(loc)] = ")"
       THEN Split(SubSeq(loc, 2, Len(loc) - 1))
       ELSE <<>>
InBox(x, y) == min_lng <= x /\ x <= max_lng /\ min_lat <= y /\ y <= max_lat

\* C9: the location of every record transform_he_record returns is a point
\* with min_lng <= lng <= max_lng and min_lat <= lat <= max_lat, and a point
\* feature outside the box gives no record whatever its other fields.
C9_OnlyPointsInBox ==
    pipeline = "lb" =>
        /\ \A p \in 1..Len(transformed) :
              LET parts == LocationNumbers(transformed[p])
              IN /\ Len(parts) = 2
                 /\ \A q \in 1..2 : Len(parts[q]) = 1 /\ IsNumeral(parts[q][1])
                 /\ InBox(NumeralValue(parts[1][1]), NumeralValue(parts[2][1]))
        /\ (OneFeature /\ RawFeature \in GridHE) =>
              LET c == Item(RawGeometry, "coordinates").items
              IN ~InBox(c[1].n, c[2].n) => ~Emitted

\* A point on a corner of the box has been accepted.
C9_Witness ==
    /\ pipeline = "lb"
    /\ OneFeature
    /\ Emitted
    /\ RawGeometry = Geom(T_Point, Pt(min_lng, max_lat))

BoroughKeys == <<"LocalAuthority", "District", "Borough">>
\* The first of the three borough fields that holds something.
NamedBorough(properties) ==
    LET present == {p \in 1..Len(BoroughKeys) :
                       HasKey(properties, BoroughKeys[p])
                         /\ Truthy(Item(properties, BoroughKeys[p]))}
    IN IF present = {} THEN PyNone
       ELSE Item(properties, BoroughKeys[CHOOSE p \in present : \A q \in present : p <= q])
NamesTarget(borough) ==
    /\ borough.k = "str"
    /\ \E t \in 1..Len(TARGET_BOROUGHS) :
          Contains(Lower(borough.s), Lower(TARGET_BOROUGHS[t]))

\* C10: a point feature inside the box that names a borough gives a record
\* exactly when a target borough name is a case-insensitive substring of it;
\* one that names none gives a record whose borough is the empty string; and
\* no record has a borough that is neither.
C10_BoroughCheckIsConditional ==
    pipeline = "lb" =>
        /\ \A p \in 1..Len(transformed) :
              \/ Item(transformed[p], "borough") = PyStr(<<>>)
              \/ NamesTarget(Item(transformed[p], "borough"))
        /\ (OneFeature /\ RawFeature \in GridHE) =>
              LET c == Item(RawGeometry, "coordinates").items
                  borough == NamedBorough(Item(RawFeature, "properties"))
              IN InBox(c[1].n, c[2].n) =>
                    IF borough = PyNone
                    THEN Emitted /\ Item(transformed[1], "borough") = PyStr(<<>>)
                    ELSE Emitted <=> NamesTarget(borough)

\* A feature that names no borough has been accepted.
C10_Witness ==
    /\ pipeline = "lb"
    /\ OneFeature
    /\ RawFeature \in GridHE
    /\ NamedBorough(Item(RawFeature, "properties")) = PyNone
    /\ Emitted
    /\ Item(transformed[1], "borough") = PyStr(<<>>)

\* The first of the named properties that holds something, None when none does.
FirstNamed(properties, keys) ==
    LET present == {p \in 1..Len(keys) :
                       HasKey(properties, keys[p]) /\ Truthy(Item(properties, keys[p]))}
    IN IF present = {} THEN PyNone
       ELSE Item(properties, keys[CHOOSE p \in present : \A q \in present : p <= q])

\* The grade the source token stands for: I for I or 1, II* for II* or 2*,
\* II for anything else and for no token.
GradeFor(token) ==
    IF token \in {PyStr(T_I), PyStr(<<"1">>), PyNum(1)} THEN PyStr(T_I)
    ELSE IF token \in {PyStr(T_IIstar), PyStr(<<"2", "*">>)} THEN PyStr(T_IIstar)
    ELSE PyStr(T_II)

\* C11: every record transform_he_record returns has a grade among I, II*, II
\* and a location that is not null; the grade is I for the tokens I and 1,
\* II* for II* and 2*, II for II and 2, and II for any other token and for a
\* feature that names no grade (a token between blanks counts as the token).
C11_GradeIsNormalised ==
    pipeline = "lb" =>
        /\ \A p \in 1..Len(transformed) :
              /\ Item(transformed[p], "grade") \in {PyStr(T_I), PyStr(T_IIstar), PyStr(T_II)}
              /\ Item(transformed[p], "location") # PyNone
        /\ (OneFeature /\ Emitted /\ RawFeature \in GradeHE \cup GridHE) =>
              LET token == FirstNamed(Item(RawFeature, "properties"), <<"Grade", "grade">>)
              IN IF token.k = "str" /\ Strip(token.s) # token.s
                 THEN Item(transformed[1], "grade") = GradeFor(PyStr(Strip(token.s)))
                 ELSE Item(transformed[1], "grade") = GradeFor(token)

\* A feature graded 2* has given a record of grade II*.
C11_Witness ==
    /\ pipeline = "lb"
    /\ OneFeature
    /\ Emitted
    /\ RawFeature \in GradeHE
    /\ FirstNamed(Item(RawFeature, "properties"), <<"Grade", "grade">>) = PyStr(<<"2", "*">>)
    /\ Item(transformed[1], "grade") = PyStr(T_IIstar)

\* The properties of the raw feature: its properties member, or the record
\* itself when it is flat.
RawProperties == GetD(RawFeature, "properties", RawFeature)
ListEntryKeys == <<"ListEntry", "list_entry", "ListEntryNumber">>

\* C12: the list_entry_number of every record transform_he_record returns is
\* not null and does not stand for a missing value (it is not the text
\* 'None'), and it is the text of the first of ListEntry, list_entry,
\* ListEntryNumber that the feature holds.
C12_NaturalKeyPresent ==
    pipeline = "lb" =>
        /\ \A p \in 1..Len(transformed) :
              /\ Item(transformed[p], "list_entry_number") # PyNone
              /\ Item(transformed[p], "list_entry_number") # PyStr(<<"N", "o", "n", "e">>)
        /\ (OneFeature /\ Emitted /\ FirstNamed(RawProperties, ListEntryKeys) # PyNone) =>
              Item(transformed[1], "list_entry_number")
                = PyStr(StrOf(FirstNamed(RawProperties, ListEntryKeys)))

CaBoroughKeys == <<"borough", "Borough", "LOCAL_AUTHORITY", "LocalAuthority">>

\* The four conditions on a raw conservation-area feature: a geometry is
\* there, validate_geometry gives a geometry for it, that geometry is a
\* Polygon or a MultiPolygon, and the borough the feature names, after the
\* rename map, matches a target borough.
CaAccepts(feature) ==
    /\ feature.k = "dict"
    /\ Truthy(Get(feature, "geometry"))
    /\ Truthy(validate_geometry(Get(feature, "geometry")))
    /\ Get(validate_geometry(Get(feature, "geometry")), "type")
          \in {PyStr(T_Polygon), PyStr(T_MultiPolygon)}
    /\ Get(feature, "properties").k = "dict"
    /\ NamesTarget(BoroughMap(FirstNamed(Get(feature, "properties"), CaBoroughKeys)))

\* C13: transform_ca_record returns a record exactly when the four
\* conditions hold, and never for a feature that names no borough.
C13_EmitsIffAccepted ==
    (pipeline = "ca" /\ OneFeature) =>
        /\ Emitted <=> CaAccepts(RawFeature)
        /\ (RawFeature \in GridCA
              /\ FirstNamed(Get(RawFeature, "properties"), CaBoroughKeys) = PyNone) => ~Emitted

Article4Keys == <<"has_article_4", "ARTICLE_4", "article4">>

\* One of the three Article 4 properties is true, or the words "article 4"
\* occur, in any case, in the text of the property set.
SaysArticle4(properties) ==
    \/ \E p \in 1..Len(Article4Keys) : Get(properties, Article4Keys[p]) = PyBool(TRUE)
    \/ Contains(Lower(Repr(properties)), T_article_4)

\* C14: has_article_4 of every record transform_ca_record returns is a
\* boolean, true exactly when one of has_article_4, ARTICLE_4, article4 is
\* true or the text "article 4" occurs in the serialized properties.
C14_Article4IsBoolean ==
    pipeline = "ca" =>
        /\ \A p \in 1..Len(transformed) : Item(transformed[p], "has_article_4").k = "bool"
        /\ (OneFeature /\ Emitted) =>
              Item(transformed[1], "has_article_4") = PyBool(SaysArticle4(RawProperties))

RestrictionKeys == <<"article_4_restrictions", "A4_RESTRICTIONS">>
NoBlankAround(t) == t = <<>> \/ (~IsSpace(t[1]) /\ ~IsSpace(t[Len(t)]))
Commas(t) == Len(SelectSeq(t, LAMBDA c : c = ","))

\* C15: article_4_restrictions of a record is null when has_article_4 is
\* false; when has_article_4 is true and the feature names its restrictions
\* as comma-separated text, it is the list of the items in order, one more
\* than there are commas, none with a blank at either end ("W, R" gives
\* [W, R]); when the feature names a list it is that list.
C15_RestrictionsParsed ==
    pipeline = "ca" =>
        /\ \A p \in 1..Len(transformed) :
              Item(transformed[p], "has_article_4") = PyBool(FALSE)
                => Item(transformed[p], "article_4_restrictions") = PyNone
        /\ (OneFeature /\ Emitted /\ Item(transformed[1], "has_article_4") = PyBool(TRUE)) =>
              LET raw == FirstNamed(RawProperties, RestrictionKeys)
                  got == Item(transformed[1], "article_4_restrictions")
              IN /\ raw.k = "list" => got = raw
                 /\ raw.k = "str" =>
                       /\ got.k = "list"
                       /\ Len(got.items) = Commas(raw.s) + 1
                       /\ \A q \in 1..Len(got.items) :
                             got.items[q].k = "str" /\ NoBlankAround(got.items[q].s)
                       /\ Remove(Join([q \in 1..Len(got.items) |-> got.items[q].s], <<",">>), " ")
                             = Remove(raw.s, " ")
                 /\ raw = PyStr(<<"W", ",", " ", "R">>)
                       => got = PyList(<<PyStr(<<"W">>), PyStr(<<"R">>)>>)

\* A feature with Article 4 and the restrictions "W, R" has given [W, R].
C15_Witness ==
    /\ pipeline = "ca"
    /\ OneFeature
    /\ Emitted
    /\ Item(transformed[1], "has_article_4") = PyBool(TRUE)
    /\ FirstNamed(RawProperties, RestrictionKeys) = PyStr(<<"W", ",", " ", "R">>)
    /\ Item(transformed[1], "article_4_restrictions") = PyList(<<PyStr(<<"W">>), PyStr(<<"R">>)>>)

\* What the table says of a date text, None for a text it does not hold.
Tabled(date) ==
    LET rows == {p \in 1..Len(DateTable) : DateTable[p][1] = date}
    IN IF rows = {} THEN PyNone ELSE DateTable[CHOOSE p \in rows : TRUE][2]

\* yyyy-mm-dd
IsIsoText(t) ==
    /\ Len(t) = 10
    /\ \A p \in 1..10 : IF p \in {5, 8} THEN t[p] = "-" ELSE IsDigit(t[p])

\* C16: for any input parse_date gives the ISO date of the first of the six
\* formats that parses it, or nothing when the input is empty or absent or
\* no format parses it, and never raises; what it gives is a fixed point of
\* parse_date ("1967-01-01" gives "1967-01-01", "01/03/1968" gives
\* "1968-03-01", "not a date" gives nothing).
C16_ParseDateTotal ==
    pipeline = "lb" =>
        /\ \A p \in 1..Len(transformed) :
              LET d == Item(transformed[p], "list_date")
              IN \/ d = PyNone
                 \/ d.k = "str" /\ IsIsoText(d.s) /\ parse_date(d) = d
        /\ (OneFeature /\ RawFeature \in DateHE) =>
              /\ ~IsExc(parse_date(Get(RawProperties, "ListDate")))
              /\ Emitted
              /\ Item(transformed[1], "list_date") = Tabled(Get(RawProperties, "ListDate"))

\* A GeoJSON geometry written as the format asks: a known type under its own
\* name, positions of numbers, every ring closed.
ClosedRings(v) ==
    /\ IsRings(v) /\ v.items # <<>>
    /\ \A p \in 1..Len(v.items) :
          Len(v.items[p].items) >= 4 /\ v.items[p].items[1] = v.items[p].items[Len(v.items[p].items)]
WellFormed(g) ==
    /\ g.k = "dict" /\ Len(g.items) = 2
    /\ HasKey(g, "type") /\ HasKey(g, "coordinates")
    /\ CASE Get(g, "type") = PyStr(T_Point) -> IsPosition(Get(g, "coordinates"))
         [] Get(g, "type") = PyStr(T_LineString) -> IsPositions(Get(g, "coordinates"), 2)
         [] Get(g, "type") = PyStr(T_Polygon) -> ClosedRings(Get(g, "coordinates"))
         [] Get(g, "type") = PyStr(T_MultiPolygon) ->
                /\ Get(g, "coordinates").k = "list" /\ Get(g, "coordinates").items # <<>>
                /\ \A p \in 1..Len(Get(g, "coordinates").items) :
                      ClosedRings(Get(g, "coordinates").items[p])
         [] OTHER -> FALSE

Proposed == IF pipeline = "lb" THEN HeRow(Params(transformed[j + 1]))
            ELSE CaRow(Params(transformed[j + 1]))
Stored == IF pipeline = "lb" THEN listed_buildings ELSE conservation_areas
Collides == IF pipeline = "lb" THEN HeConflicts(Stored, Proposed)
            ELSE CaConflicts(Stored, Proposed)
Columns(row) == {row.items[q].s[1] : q \in 1..Len(row.items)}

\* A call that returns for a record whose key is stored with other values.
Reingest ==
    /\ pc = "insert" /\ j < Len(transformed)
    /\ ~IsExc(Params(transformed[j + 1]))
    /\ j' = j + 1 /\ inserted' = inserted + 1
    /\ Collides # {}
    /\ \E q \in Collides : \E c \in Columns(Proposed) :
          Item(Stored[q], c) # Item(Proposed, c)

\* The colliding rows afterwards hold the record's value in each of the given
\* columns and the time of this write as updated_at.
Overwritten(columns) ==
    LET after == IF pipeline = "lb" THEN listed_buildings' ELSE conservation_areas'
    IN \A q \in Collides :
          /\ \A c \in columns : Item(after[q], c) = Item(Proposed, c)
          /\ HasKey(after[q], "updated_at")
          /\ Item(after[q], "updated_at") = PyNum(now')
          /\ now' > now

\* C18: when a record whose natural key is already stored is ingested again
\* with changed values, the stored row afterwards equals the new record in
\* every canonical field and its last-updated timestamp is refreshed.
C18_ReingestOverwrites == [][Reingest => Overwritten(Columns(Proposed))]_vars

\* What the statement asks of a path that is opened: an extension of the list,
\* a regular file that exists, no sensitive system directory on the way to it,
\* and a place inside the allowed directory when one is configured.
Extensions == {<<".", "j", "s", "o", "n">>, <<".", "g", "e", "o", "j", "s", "o", "n">>}
SystemDirs == {"/etc/", "/var/", "/usr/", "/root/"}
PathAllowed(o) ==
    /\ Lower(SuffixText(o.path.s[Len(o.path.s)])) \in Extensions
    /\ o.fs.exists /\ o.fs.is_file
    /\ \A q \in 1..Len(o.path.s) : o.path.s[q] \notin SystemDirs
    /\ o.allowed_data_dir \notin {PyNone, PyStr(<<>>)} => o.path.s[1] = o.allowed_data_dir.s[1]

\* The run reads its records from a file.
FromFile == Truthy(args.filepath) /\ (pipeline = "lb" => args.source = "file")

\* C19: a file is opened only after its path passed the validation, which
\* passes only a path with an allow-listed extension that exists as a regular
\* file outside the sensitive directories and inside the allowed directory
\* when one is configured; any other path raises ValueError and nothing of
\* the file is read.
C19_OpenOnlyValidated ==
    /\ \A q \in 1..Len(opened) :
          /\ opened[q].path = args.filepath
          /\ opened[q].opened => PathAllowed(opened[q])
          /\ ~PathAllowed(opened[q]) =>
                /\ ~opened[q].opened
                /\ pc = "raised" /\ result = Exc("ValueError")
                /\ records = PyList(<<>>)
    /\ (FromFile /\ records # PyList(<<>>)) => (Len(opened) = 1 /\ opened[1].opened)

\* A file inside the configured directory was opened and its records are
\* being transformed.
C19_Witness ==
    /\ pc = "transform" /\ FromFile
    /\ Len(opened) = 1 /\ opened[1].opened
    /\ opened[1].allowed_data_dir = PyStr(<<"/data/">>)

\* The borough of a canonical record or of a call is the borough asked for.
OfBorough(borough, wanted) ==
    /\ borough.k = "str" /\ wanted.k = "str"
    /\ Lower(borough.s) = Lower(wanted.s)

\* C20: when a borough filter is passed to ingest_listed_buildings or
\* ingest_conservation_areas, every record the run transforms and hands to
\* persistence belongs to that borough, for a file source as for remote ones.
C20_BoroughFilterApplies ==
    Truthy(args.borough) =>
        /\ \A q \in 1..Len(transformed) :
              OfBorough(Item(transformed[q], "borough"), args.borough)
        /\ \A q \in 1..Len(calls) :
              OfBorough(Item(calls[q].params, "p_borough"), args.borough)

\* The n-th consecutive slice of batch_size records of a list.
NthSlice(rs, batch_size, n) ==
    LET first == (n - 1) * batch_size
        last == IF n * batch_size < Len(rs) THEN n * batch_size ELSE Len(rs)
    IN [q \in 1..(last - first) |-> rs[first + q]]

\* The upsert calls of whole batches among the first q calls, and the last of
\* them (0 when there is none).
BatchCalls(q) == {p \in 1..q : frame.upserts[p].many}
LastBatchCall(q) ==
    IF BatchCalls(q) = {} THEN 0
    ELSE CHOOSE p \in BatchCalls(q) : \A r \in BatchCalls(q) : r <= p

\* The records written by the calls that returned, in the order of writing.
RECURSIVE Written(_)
Written(u) ==
    IF u = <<>> THEN <<>>
    ELSE IF u[Len(u)].raised THEN Written(SubSeq(u, 1, Len(u) - 1))
    ELSE Written(SubSeq(u, 1, Len(u) - 1)) \o u[Len(u)].payload

\* Batches are the consecutive slices, in order.
SlicesInOrder ==
    /\ \A p \in BatchCalls(Len(frame.upserts)) :
          frame.upserts[p].payload =
              NthSlice(frame.records, frame.batch_size, Cardinality(BatchCalls(p)))
    /\ frame.pc = "returned" =>
          Cardinality(BatchCalls(Len(frame.upserts))) * frame.batch_size >= Len(frame.records)

\* A record is sent alone only as the retry of the failed batch just before,
\* each record of that batch once and in its order; after a batch that was
\* written the next call is a batch again.
RetriesWithinBatch ==
    /\ \A q \in 1..Len(frame.upserts) :
          ~frame.upserts[q].many =>
              LET p == LastBatchCall(q)
              IN /\ p > 0
                 /\ frame.upserts[p].raised
                 /\ q - p <= Len(frame.upserts[p].payload)
                 /\ frame.upserts[q].payload = <<frame.upserts[p].payload[q - p]>>
    /\ \A p \in BatchCalls(Len(frame.upserts)) :
          LET rest == Len(frame.upserts) - p
              next == IF \E q \in BatchCalls(Len(frame.upserts)) : q > p
                      THEN CHOOSE q \in BatchCalls(Len(frame.upserts)) :
                               q > p /\ \A r \in BatchCalls(Len(frame.upserts)) :
                                           r > p => q <= r
                      ELSE Len(frame.upserts) + 1
          IN IF frame.upserts[p].raised
             THEN /\ next - p - 1 <= Len(frame.upserts[p].payload)
                  /\ (next <= Len(frame.upserts) \/ frame.pc = "returned") =>
                        next - p - 1 = Len(frame.upserts[p].payload)
             ELSE next = p + 1

\* The total counts the records whose batch or own upsert returned.
TotalCounted ==
    /\ frame.total = Len(Written(frame.upserts))
    /\ 0 <= frame.total /\ frame.total <= Len(frame.records)
    /\ frame.pc = "returned" => frame.result = PyNum(frame.total)

\* What was written stays: for each list entry number written in this call
\* the table holds the record written last under it.
NothingRolledBack ==
    LET w == Written(frame.upserts)
    IN \A q \in 1..Len(w) :
          (\A r \in (q + 1)..Len(w) : w[r].list_entry_number # w[q].list_entry_number)
              => w[q] \in target_table

\* C21: for any record list, batch size >= 1 and pattern of upsert failures,
\* batch_insert returns without raising; its batches are the consecutive
\* slices of the list in order; a batch that is written counts all its
\* records; the records of a failed batch, and no others, are retried alone
\* once each; the total returned is the number of records whose batch or own
\* upsert succeeded, between 0 and len(records); earlier writes stay.
C21_BatchInsertAccounts ==
    /\ [](SlicesInOrder /\ RetriesWithinBatch /\ TotalCounted /\ NothingRolledBack)
    /\ (frame.pc = "for") ~> (frame.pc = "returned")

\* A call over three records in batches of two has returned after a failed
\* batch with one record retried in vain and one written, and a batch written.
C21_Witness ==
    /\ frame.pc = "returned"
    /\ Len(frame.records) = 3 /\ frame.batch_size = 2
    /\ frame.total = 2
    /\ \E p, q \in 1..Len(frame.upserts) :
          /\ frame.upserts[p].many /\ frame.upserts[p].raised
          /\ frame.upserts[q].many /\ ~frame.upserts[q].raised
    /\ \E p, q \in 1..Len(frame.upserts) :
          /\ ~frame.upserts[p].many /\ frame.upserts[p].raised
          /\ ~frame.upserts[q].many /\ ~frame.upserts[q].raised

\* The five counts of a summary.
SummaryCounts == {"total", "transformed", "inserted", "skipped", "failed"}

\* A summary carries the five counts and they account for every record.
Accounts(summary, dry_run) ==
    /\ summary.k = "dict"
    /\ \A c \in SummaryCounts : HasKey(summary, c) /\ Item(summary, c).k = "num"
    /\ Item(summary, "total").n = Item(summary, "transformed").n + Item(summary, "skipped").n
    /\ ~dry_run =>
          Item(summary, "transformed").n = Item(summary, "inserted").n + Item(summary, "failed").n

\* C22: every return of ingest_listed_buildings and ingest_conservation_areas,
\* for every input including an empty one, carries the five counts total,
\* transformed, inserted, skipped and failed, with total = transformed +
\* skipped and, when not a dry run, transformed = inserted + failed.
C22_SummaryAccounts == pc = "done" => Accounts(result, args.dry_run)


============================================================================
